---------------------------- MODULE Spec2Model ----------------------------
(***************************************************************************)
(* A model of the registry crawler and of the historical version           *)
(* resolution of cve_scanner_dashboard:                                    *)
(*   crawler/base.py       ImageTag, filter_tags, sort_tags_by_date        *)
(*   crawler/resolver.py   HistoricalTagResolver                           *)
(*   crawler/docker_hub.py, mcr.py, chainguard.py   the registry clients   *)
(*   scripts/workflows/resolve-historical-versions.py   the batch driver   *)
(*                                                                         *)
(* Conventions.  A Python Optional is a sequence of length at most one:    *)
(* None is <<>> and a present value x is <<x>>.  A tag name is a sequence  *)
(* of one-character strings, so that the regular expressions of base.py    *)
(* are computed character by character.  An instant is an integer number   *)
(* of clock ticks.                                                         *)
(***************************************************************************)
EXTENDS Integers, Sequences, FiniteSets, TLC

VARIABLES
    \* find_latest_at_date, called once on a listing
    fTags, fTarget, fQuery, fPc, fResult,
    \* find_tags_for_periods: the wall clock, the period being resolved, the
    \* target date computed for each period, the results so far, the remote
    \* listing, the number of list_tags calls made
    pClock, pIdx, pTargets, pResults, pRemote, pListCalls, pPc,
    \* list_tags of one client: the client variant, the remote registry, the
    \* position in the call, the page or tag index, the tags collected, the
    \* MCR token cache, the Authorization header of the Chainguard session,
    \* whether a tag-listing request of the call failed, the returned list
    cClient, cRemote, cPc, cPos, cNames, cTags, cTokenCache, cSessionAuth,
    cListFailed, cReturned,
    \* the page numbers list_tags of Docker Hub requested, in order
    cRequested,
    \* the batch driver: the mappings, what the registry does for the calls
    \* of each mapping, the worker count, the run of main in progress, the
    \* token cache of the resolver's MCR crawler,
    dMappings, dEnv, dWorkers, dPhase, dTokenCache,
    \* the mappings for which the run in progress sent a registry request,
    dRequested,
    \* resolve_all_mappings_sequential: loop index, results, how it ended,
    sIdx, sResults, sOutcome,
    \* resolve_all_mappings_parallel: position of each task, the token its
    \* thread holds, the requests of its resolution made so far, its future,
    \* the pre-allocated results, the number of writes to each slot, the
    \* order in which as_completed yielded the futures, the position of the
    \* main thread
    tPc, tToken, tWork, tFuture, parResults, parWrites, parOrder, parPc,
    \* one call of filter_tags or sort_tags_by_date: the tags and the other
    \* arguments, the position in the call, the returned list
    uTags, uArgs, uPc, uOut,
    \* the lifetime of one client instance: the client variant, the remote
    \* registry by repository, the MCR token cache, the Authorization header
    \* of the Chainguard session, the outbound requests and the sleeps in
    \* the order made, the calls made with what they returned
    kClient, kRemote, kCache, kSession, kLog, kResults,
    \* the output of the worker threads: the verbose flag, whether the
    \* listings of each worker's mapping fail, the position of each worker
    \* in the messages of its task, the holder of print_lock, the threads
    \* that are writing to the output, the lines written
    lVerbose, lFails, lPc, lLock, lWriters, lSink

findVars == <<fTags, fTarget, fQuery, fPc, fResult>>

periodVars == <<pClock, pIdx, pTargets, pResults, pRemote, pListCalls, pPc>>

crawlVars == <<cClient, cRemote, cPc, cPos, cNames, cTags, cTokenCache,
               cSessionAuth, cListFailed, cReturned, cRequested>>

driverVars == <<dMappings, dEnv, dWorkers, dPhase, dTokenCache, dRequested,
                sIdx, sResults, sOutcome,
                tPc, tToken, tWork, tFuture, parResults, parWrites, parOrder, parPc>>

utilVars == <<uTags, uArgs, uPc, uOut>>

clientVars == <<kClient, kRemote, kCache, kSession, kLog, kResults>>

logVars == <<lVerbose, lFails, lPc, lLock, lWriters, lSink>>

vars == <<findVars, periodVars, crawlVars, driverVars, utilVars, clientVars,
          logVars>>

\* what the actions of one part of the model leave alone
notFind ==
    <<periodVars, crawlVars, driverVars, utilVars, clientVars, logVars>>

notPeriod ==
    <<findVars, crawlVars, driverVars, utilVars, clientVars, logVars>>

notCrawl ==
    <<findVars, periodVars, driverVars, utilVars, clientVars, logVars>>

notDriver ==
    <<findVars, periodVars, crawlVars, utilVars, clientVars, logVars>>

notUtil ==
    <<findVars, periodVars, crawlVars, driverVars, clientVars, logVars>>

notClient ==
    <<findVars, periodVars, crawlVars, driverVars, utilVars, logVars>>

notLog == <<findVars, periodVars, crawlVars, driverVars, utilVars, clientVars>>

-----------------------------------------------------------------------------
(* Optional values *)

None == <<>>

Some(x) == <<x>>

\* a datetime: an instant, aware when it carries tzinfo, naive when it is a
\* wall-clock reading without a UTC offset
Aware(instant) == [instant |-> instant, aware |-> TRUE]

Naive(instant) == [instant |-> instant, aware |-> FALSE]

\* "a <= b" of two datetimes raises TypeError ("can't compare offset-naive
\* and offset-aware datetimes") when exactly one of them is aware
ComparisonRaises(a, b) == a.aware # b.aware

-----------------------------------------------------------------------------
(* Bounds of the model *)

\* longest tag listing drawn as an input
MaxTags == 3

\* instants of the pure-function inputs range over 0..MaxDate
MaxDate == 2

\* clock ticks in a day
DayTicks == 2

\* most ticks the wall clock advances during one list_tags call
MaxElapsed == 1

\* most pages of a Docker Hub listing, and most tags on one page
MaxPages == 2

MaxPageTags == 2

\* most tag names in the tags/list answer of an OCI registry
MaxNames == 2

\* most mappings in a batch, and the largest worker count
MaxMappings == 2

MaxWorkers == 2

\* most calls made on one client instance
MaxCalls == 3

\* the worker threads that write messages
MaxLogWorkers == 2

-----------------------------------------------------------------------------
(* Strings as character sequences *)

Digits == {"0", "1", "2", "3", "4", "5", "6", "7", "8", "9"}

\* re.IGNORECASE: the upper-case letters that occur in the modelled names
Lower(c) ==
    CASE c = "R" -> "r"
      [] c = "C" -> "c"
      [] c = "D" -> "d"
      [] c = "E" -> "e"
      [] c = "V" -> "v"
      [] OTHER -> c

LowerSeq(s) == [i \in 1..Len(s) |-> Lower(s[i])]

\* the literal lit occurs in s at position i
LitAt(lit, s, i) ==
    /\ i >= 1
    /\ i + Len(lit) - 1 <= Len(s)
    /\ \A k \in 1..Len(lit) : s[i + k - 1] = lit[k]

Contains(lit, s) == \E i \in 1..Len(s) : LitAt(lit, s, i)

StartsWith(lit, s) == LitAt(lit, s, 1)

EndsWith(lit, s) == LitAt(lit, s, Len(s) - Len(lit) + 1)

\* r'-r\d+$': "-r", then one or more digits, then the end of the name
RevisionSuffix(s) ==
    \E i \in 1..Len(s) :
        /\ LitAt(<<"-", "r">>, s, i)
        /\ i + 2 <= Len(s)
        /\ \A k \in (i + 2)..Len(s) : s[k] \in Digits

\* a pattern of literal characters and "." (any character), at position i
PatAt(pat, s, i) ==
    /\ i + Len(pat) - 1 <= Len(s)
    /\ \A k \in 1..Len(pat) : pat[k] = "." \/ s[i + k - 1] = pat[k]

\* regex.search(name) for such a pattern
Search(pat, s) == \E i \in 1..(Len(s) + 1) : PatAt(pat, s, i)

-----------------------------------------------------------------------------
(* crawler/base.py: ImageTag *)

ImageTag(name, created, digest, size) ==
    [name |-> name, created |-> created, digest |-> digest, size |-> size]

\* ImageTag(name=tag): every other field keeps its default, None
MinimalTag(name) == ImageTag(name, None, None, None)

\* r'^v?\d+(\.\d+)*' with re.match: an optional "v" and at least one digit
\* at the start; the dotted groups may be empty and nothing anchors the end
is_semver(name) ==
    \/ Len(name) >= 1 /\ name[1] \in Digits
    \/ Len(name) >= 2 /\ name[1] = "v" /\ name[2] \in Digits

is_dev(name) ==
    LET s == LowerSeq(name) IN
    \/ EndsWith(<<"-", "d", "e", "v">>, s)
    \/ Contains(<<"-", "a", "l", "p", "h", "a">>, s)
    \/ Contains(<<"-", "b", "e", "t", "a">>, s)
    \/ Contains(<<"-", "r", "c">>, s)
    \/ StartsWith(<<"s", "h", "a", "2", "5", "6", "-">>, s)
    \/ RevisionSuffix(s)
    \/ Contains(<<"n", "i", "g", "h", "t", "l", "y">>, s)
    \/ Contains(<<"l", "a", "t", "e", "s", "t">>, s)

-----------------------------------------------------------------------------
(* crawler/base.py: RegistryCrawler.filter_tags and sort_tags_by_date *)

IsDevTag(t) == is_dev(t.name)

IsSemverTag(t) == is_semver(t.name)

\* the development tags are filtered only when no pattern is given
filter_tags_pattern_overrides(tags, include_dev, only_semver, pattern) ==
    LET given == pattern # None /\ pattern[1] # <<>>
        f1 == IF ~include_dev /\ ~given
              THEN SelectSeq(tags, LAMBDA t : ~IsDevTag(t))
              ELSE tags
        f2 == IF only_semver
              THEN SelectSeq(f1, IsSemverTag)
              ELSE f1
        f3 == IF given
              THEN SelectSeq(f2, LAMBDA t : Search(pattern[1], t.name))
              ELSE f2
    IN f3

\* the filtered tags handed back newest-listed first
filter_tags_reversing(tags, include_dev, only_semver, pattern) ==
    LET f1 == IF ~include_dev
              THEN SelectSeq(tags, LAMBDA t : ~IsDevTag(t))
              ELSE tags
        f2 == IF only_semver
              THEN SelectSeq(f1, IsSemverTag)
              ELSE f1
        f3 == IF pattern # None /\ pattern[1] # <<>>
              THEN SelectSeq(f2, LAMBDA t : Search(pattern[1], t.name))
              ELSE f2
    IN [i \in 1..Len(f3) |-> f3[Len(f3) + 1 - i]]

\* three list comprehensions, applied in this order; pattern None (or the
\* empty string, which is falsy) filters nothing
filter_tags(tags, include_dev, only_semver, pattern) ==
    LET f1 == IF ~include_dev
              THEN SelectSeq(tags, LAMBDA t : ~IsDevTag(t))
              ELSE tags
        f2 == IF only_semver
              THEN SelectSeq(f1, IsSemverTag)
              ELSE f1
        f3 == IF pattern # None /\ pattern[1] # <<>>
              THEN SelectSeq(f2, LAMBDA t : Search(pattern[1], t.name))
              ELSE f2
    IN f3

\* x sorts strictly before y
KeyBefore(x, y, reverse) ==
    IF reverse THEN x.created[1].instant > y.created[1].instant
               ELSE x.created[1].instant < y.created[1].instant

\* x enters the sorted s before the first element it sorts strictly before:
\* elements with an equal key stay ahead of it
InsertStable(x, s, reverse) ==
    LET ahead == {i \in 1..Len(s) : KeyBefore(x, s[i], reverse)}
        at == IF ahead = {} THEN Len(s) + 1
              ELSE CHOOSE i \in ahead : \A j \in ahead : i <= j
    IN SubSeq(s, 1, at - 1) \o <<x>> \o SubSeq(s, at, Len(s))

RECURSIVE StableSort(_, _)
\* list.sort(key=..., reverse=reverse): stable in both directions
StableSort(s, reverse) ==
    IF s = <<>> THEN <<>>
    ELSE InsertStable(s[Len(s)], StableSort(SubSeq(s, 1, Len(s) - 1), reverse),
                      reverse)

\* list.sort(reverse=True) as sorted(...)[::-1] would do it
ReversedAscendingSort(s, reverse) ==
    LET a == StableSort(s, ~reverse)
    IN [i \in 1..Len(a) |-> a[Len(a) + 1 - i]]

sort_tags_by_date_reversing(tags, reverse) ==
    LET with_dates == SelectSeq(tags, LAMBDA t : t.created # None)
        without_dates == SelectSeq(tags, LAMBDA t : t.created = None)
    IN ReversedAscendingSort(with_dates, reverse) \o without_dates

\* the sort as it would be with None as the lowest key
sort_tags_by_date_none_lowest(tags, reverse) ==
    LET with_dates == SelectSeq(tags, LAMBDA t : t.created # None)
        without_dates == SelectSeq(tags, LAMBDA t : t.created = None)
    IN IF reverse
       THEN StableSort(with_dates, reverse) \o without_dates
       ELSE without_dates \o StableSort(with_dates, reverse)

sort_tags_by_date(tags, reverse) ==
    LET with_dates == SelectSeq(tags, LAMBDA t : t.created # None)
        without_dates == SelectSeq(tags, LAMBDA t : t.created = None)
    IN StableSort(with_dates, reverse) \o without_dates

-----------------------------------------------------------------------------
(* crawler/resolver.py: HistoricalTagResolver.find_latest_at_date *)

\* the query of a call: tag_pattern, only_semver, exclude_dev
Query(pattern, only_semver, exclude_dev) ==
    [pattern |-> pattern, only_semver |-> only_semver,
     exclude_dev |-> exclude_dev]

\* the defaults, which resolve_versions passes
DefaultQuery == Query(None, TRUE, TRUE)

find_latest_at_date_exclusive(all_tags, target_date, q) ==
    LET filtered_tags == filter_tags(all_tags, ~q.exclude_dev, q.only_semver,
                                     q.pattern)
        historical_tags ==
            SelectSeq(filtered_tags,
                      LAMBDA t : t.created # None /\ t.created[1].instant < target_date)
    IN IF historical_tags = <<>> THEN None
       ELSE Some(sort_tags_by_date(historical_tags, TRUE)[1])

\* all_tags is what crawler.list_tags(repository, namespace) returned
\* with aware created values; on a naive one the comparison with
\* target_date raises (ComparisonRaises) and the call returns nothing
find_latest_at_date(all_tags, target_date, q) ==
    LET filtered_tags == filter_tags(all_tags, ~q.exclude_dev, q.only_semver,
                                     q.pattern)
        historical_tags ==
            SelectSeq(filtered_tags,
                      LAMBDA t : t.created # None /\ t.created[1].instant <= target_date)
    IN IF historical_tags = <<>> THEN None
       ELSE Some(sort_tags_by_date(historical_tags, TRUE)[1])

-----------------------------------------------------------------------------
(* Inputs of the pure-function specifications *)

\* "1.0", "1.1": release tags; "1.1-RC1": a release candidate, in upper
\* case; "edge": neither a version nor a development tag
TagNames ==
    { <<"1", ".", "0">>,
      <<"1", ".", "1">>,
      <<"1", ".", "1", "-", "R", "C", "1">>,
      <<"e", "d", "g", "e">> }

Instants == 0..MaxDate

TagPool ==
    { ImageTag(n, c, None, None) :
        n \in TagNames, c \in {None} \cup {Some(Aware(d)) : d \in Instants} }

\* every listing of at most n tags of the pool that names each tag once, as
\* a registry's tag list does
Listings(n) ==
    { l \in UNION { [1..k -> TagPool] : k \in 0..n } :
        \A i, j \in 1..Len(l) : l[i].name = l[j].name => i = j }

Queries ==
    { DefaultQuery,
      Query(None, FALSE, TRUE),
      Query(None, TRUE, FALSE),
      Query(None, FALSE, FALSE),
      Query(Some(<<"1", ".", "1">>), FALSE, FALSE) }

-----------------------------------------------------------------------------
(* One call of find_latest_at_date (specification SpecFind) *)

FindInit ==
    /\ fTags \in Listings(MaxTags)
    /\ fTarget \in Instants
    /\ fQuery \in Queries
    /\ fPc = "call"
    /\ fResult = None

FindIdle ==
    /\ fTags = <<>>
    /\ fTarget = 0
    /\ fQuery = DefaultQuery
    /\ fPc = "idle"
    /\ fResult = None

FindLatestAtDateCall ==
    /\ fPc = "call"
    /\ fResult' = find_latest_at_date(fTags, fTarget, fQuery)
    /\ fPc' = "done"
    /\ UNCHANGED <<fTags, fTarget, fQuery>>
    /\ UNCHANGED notFind

FindNext == FindLatestAtDateCall


-----------------------------------------------------------------------------
(* Claims about find_latest_at_date *)

\* the name filter of the call, stated as one predicate on a tag
PassesQuery(t, q) ==
    /\ q.exclude_dev => ~is_dev(t.name)
    /\ q.only_semver => is_semver(t.name)
    /\ q.pattern # None => Search(q.pattern[1], t.name)

\* the positions of the listing that qualify for the target date
Qualifying(tags, target, q) ==
    { i \in 1..Len(tags) :
        /\ PassesQuery(tags[i], q)
        /\ tags[i].created # None
        /\ tags[i].created[1].instant <= target }

\* the qualifying positions whose created instant is maximal
Newest(tags, target, q) ==
    LET Q == Qualifying(tags, target, q)
    IN { i \in Q : \A j \in Q : tags[j].created[1].instant <= tags[i].created[1].instant }

\* C6: find_latest_at_date returns a tag that passes the filter, is dated at
\* or before target_date (the boundary included) and is of maximal created
\* among those; it returns None exactly when no tag qualifies.
C6_LatestAtDate ==
    fPc = "done" =>
        LET Q == Qualifying(fTags, fTarget, fQuery)
            N == Newest(fTags, fTarget, fQuery)
        IN /\ (fResult = None) <=> (Q = {})
           /\ fResult # None =>
                /\ \E i \in N : fTags[i] = fResult[1]
                /\ fResult[1].created # None
                /\ fResult[1].created[1].instant <= fTarget

\* a call that returned a tag created exactly at target_date, from a listing
\* that also holds an undated tag and a tag created after target_date
C6_Witness ==
    /\ fPc = "done"
    /\ fResult # None
    /\ fResult[1].created = Some(Aware(fTarget))
    /\ \E i \in 1..Len(fTags) :
        PassesQuery(fTags[i], fQuery) /\ fTags[i].created = None
    /\ \E i \in 1..Len(fTags) :
        /\ PassesQuery(fTags[i], fQuery)
        /\ fTags[i].created # None
        /\ fTags[i].created[1].instant > fTarget

\* C7: among several qualifying tags of the same maximal created instant,
\* find_latest_at_date returns the one listed first.
C7_TieEarliestListed ==
    fPc = "done" /\ fResult # None =>
        LET N == Newest(fTags, fTarget, fQuery)
            first == CHOOSE i \in N : \A j \in N : i <= j
        IN fResult[1] = fTags[first]

\* a call that settled a tie between two different tags
C7_Witness ==
    /\ fPc = "done"
    /\ fResult # None
    /\ \E i, j \in Newest(fTags, fTarget, fQuery) :
        i < j /\ fTags[i] # fTags[j] /\ fResult[1] = fTags[i]

-----------------------------------------------------------------------------
(* crawler/resolver.py: HistoricalTagResolver.find_tags_for_periods *)

\* self.periods of HistoricalVersionResolver
Periods ==
    << [name |-> "current", offset_days |-> 0],
       [name |-> "six_months_ago", offset_days |-> 180],
       [name |-> "one_year_ago", offset_days |-> 365] >>

\* timedelta(days=offset_days), in ticks
Days(offset_days) == offset_days * DayTicks

\* the wall clock when find_tags_for_periods is entered
StartClock == Days(365) + 1

\* datetime.now(timezone.utc) - timedelta(days=offset_days)
TargetDate(now, period) == now - Days(period.offset_days)

\* instants at and one tick after each period's target date at StartClock
PeriodInstants ==
    { TargetDate(StartClock, Periods[k]) + e : k \in 1..Len(Periods), e \in {0, 1} }

PeriodTagNames == { <<"1", ".", "0">>, <<"1", ".", "1">> }

PeriodTagPool ==
    { ImageTag(n, c, None, None) :
        n \in PeriodTagNames, c \in {None} \cup {Some(Aware(d)) : d \in PeriodInstants} }

\* the remote listings: each name at most once
PeriodListings ==
    { l \in UNION { [1..k -> PeriodTagPool] : k \in 0..Cardinality(PeriodTagNames) } :
        \A i, j \in 1..Len(l) : l[i].name = l[j].name => i = j }

PeriodInit ==
    /\ pClock = StartClock
    /\ pIdx = 1
    /\ pTargets = <<>>
    /\ pResults = <<>>
    /\ pRemote \in PeriodListings
    /\ pListCalls = 0
    /\ pPc = "loop"

PeriodIdle ==
    /\ pClock = 0
    /\ pIdx = 0
    /\ pTargets = <<>>
    /\ pResults = <<>>
    /\ pRemote = <<>>
    /\ pListCalls = 0
    /\ pPc = "idle"

\* one iteration of "for period in periods": the target date is computed from
\* the clock as it reads now; find_latest_at_date lists the repository, which
\* takes elapsed ticks, and resolves the period on that listing
PeriodIteration(elapsed) ==
    /\ pPc = "loop"
    /\ pIdx <= Len(Periods)
    /\ LET period == Periods[pIdx]
           target_date == TargetDate(pClock, period)
           tag == find_latest_at_date(pRemote, target_date, DefaultQuery)
       IN /\ pTargets' = Append(pTargets, target_date)
          /\ pResults' = (period.name :> tag) @@ pResults
    /\ pListCalls' = pListCalls + 1
    /\ pClock' = pClock + elapsed
    /\ pIdx' = pIdx + 1
    /\ UNCHANGED pRemote
    /\ UNCHANGED pPc
    /\ UNCHANGED notPeriod

\* "return results" after the last period
PeriodsReturn ==
    /\ pPc = "loop"
    /\ pIdx > Len(Periods)
    /\ pPc' = "done"
    /\ UNCHANGED <<pClock, pIdx, pTargets, pResults, pRemote, pListCalls>>
    /\ UNCHANGED notPeriod

PeriodNext ==
    \/ \E elapsed \in 0..MaxElapsed : PeriodIteration(elapsed)
    \/ PeriodsReturn

\* C8: within one find_tags_for_periods call the target dates of any two
\* periods differ by exactly the difference of their offsets, as they would
\* if all were computed from one "now" captured once.
C8_SingleNow ==
    \A p, q \in 1..Len(pTargets) :
        pTargets[p] - pTargets[q]
            = Days(Periods[q].offset_days) - Days(Periods[p].offset_days)

-----------------------------------------------------------------------------
(* The remote registries *)

\* a timestamp string of a registry answer: the instant it denotes and
\* whether datetime.fromisoformat accepts it
Timestamp(instant, valid) ==
    [instant |-> instant, valid |-> valid, offset |-> TRUE]

\* a well-formed timestamp string without "Z" and without a UTC offset
NaiveTimestamp(instant) ==
    [instant |-> instant, valid |-> TRUE, offset |-> FALSE]

\* datetime.fromisoformat(s.replace('Z', '+00:00')); a ValueError leaves
\* created at None
ParseCreated(stamp) ==
    IF stamp # None /\ stamp[1].valid
    THEN Some(IF stamp[1].offset THEN Aware(stamp[1].instant)
              ELSE Naive(stamp[1].instant))
    ELSE None

RECURSIVE SumSizes(_)
\* sum(layer.get('size', 0) for layer in layers)
SumSizes(sizes) ==
    IF sizes = <<>> THEN 0 ELSE sizes[1] + SumSizes(Tail(sizes))

\* Docker Hub: the tag objects of a page of results
DockerTagData ==
    { [name |-> <<"1", ".", "0">>,
       last_updated |-> None,
       tag_last_pushed |-> Some(Timestamp(1, TRUE)),
       images |-> << [digest |-> Some("sha256:10"), size |-> 5] >>],
      [name |-> <<"1", ".", "1">>,
       last_updated |-> Some(Timestamp(2, FALSE)),
       tag_last_pushed |-> None,
       images |-> << >>],
      [name |-> <<"1", ".", "2">>,
       last_updated |-> Some(NaiveTimestamp(1)),
       tag_last_pushed |-> None,
       images |-> << [digest |-> Some("sha256:12"), size |-> 6] >>] }

\* a page has a "next" link exactly when a page follows it
DockerPages ==
    UNION { [1..k -> UNION { [1..m -> DockerTagData] : m \in 0..MaxPageTags }] :
            k \in 0..MaxPages }

\* fail_at is the number of the page request that fails in transport
\* (0: none does)
DockerRemotes ==
    { [pages |-> ps, fail_at |-> f] :
        ps \in DockerPages, f \in 0..MaxPages }

OciNames == { <<"1", ".", "0">>, <<"1", ".", "1">>, <<"e", "d", "g", "e">> }

\* what the registry does when the metadata of a tag is fetched
FetchPlans == {"ok", "manifest_fail", "config_fail", "config_non200"}

\* a tag of an OCI registry: its name, the fetch plan, and the "created"
\* string of its config blob
OciEntry(name, plan, created) ==
    [name |-> name, plan |-> plan, created |-> created]

OciEntries ==
    { OciEntry(n, f, Some(Timestamp(1, TRUE))) : n \in OciNames, f \in FetchPlans }
    \cup { OciEntry(<<"1", ".", "2">>, "ok", Some(NaiveTimestamp(1))) }
    \cup { OciEntry(<<"1", ".", "1">>, "manifest_not_object",
                    Some(Timestamp(1, TRUE))) }

\* the manifest and config blob the OCI registries serve for a tag
OciManifest(entry) ==
    [schemaVersion |-> 2, digest |-> "sha256:m", config_digest |-> "sha256:c",
     layers |-> <<3, 4>>, created |-> entry.created]

\* auth: "open" (requests need no token), "bearer" (a token is needed and the
\* token service answers), "bearer_down" (needed, the token service fails);
\* listing: whether the tags/list request succeeds in transport
OciRemotes ==
    { [auth |-> a, listing |-> l, entries |-> es] :
        a \in {"open", "bearer", "bearer_down"},
        l \in {"ok", "fail"},
        es \in { e \in UNION { [1..k -> OciEntries] : k \in 0..MaxNames } :
                   \A i, j \in 1..Len(e) : e[i].name = e[j].name => i = j } }

\* the repository the call lists
Repo == "dotnet/runtime"

TokenFor(repository) == <<"token", repository>>

\* the registry accepts a request: it needs no token, or the request
\* carries the token of the repository
Authorized(remote, repository, token) ==
    remote.auth = "open" \/ token = Some(TokenFor(repository))

-----------------------------------------------------------------------------
(* crawler/docker_hub.py: DockerHubCrawler *)

docker_parse_tag(tag_data) ==
    LET stamp == IF tag_data.last_updated # None THEN tag_data.last_updated
                 ELSE tag_data.tag_last_pushed
        images == tag_data.images
        digest == IF images # <<>> THEN images[1].digest ELSE None
        total_size == SumSizes([i \in 1..Len(images) |-> images[i].size])
        size == IF images # <<>> /\ total_size > 0 THEN Some(total_size) ELSE None
    IN ImageTag(tag_data.name, ParseCreated(stamp), digest, size)

\* the loop as it would be without "page += 1"
DockerPageRequestRepeating ==
    /\ cClient = "docker"
    /\ cPc = "page"
    /\ LET failed == cRemote.fail_at = cPos \/ cPos > Len(cRemote.pages)
           results == IF failed THEN <<>> ELSE cRemote.pages[cPos]
           has_next == cPos < Len(cRemote.pages)
           tags == cTags \o [i \in 1..Len(results) |-> docker_parse_tag(results[i])]
       IN IF failed
          THEN /\ cListFailed' = TRUE
               /\ cPc' = "done"
               /\ cReturned' = cTags
               /\ UNCHANGED <<cTags, cPos>>
          ELSE IF results = <<>>
          THEN /\ cPc' = "done"
               /\ cReturned' = cTags
               /\ UNCHANGED <<cTags, cPos, cListFailed>>
          ELSE IF ~has_next
          THEN /\ cTags' = tags
               /\ cPc' = "done"
               /\ cReturned' = tags
               /\ UNCHANGED <<cPos, cListFailed>>
          ELSE /\ cTags' = tags
               /\ cPos' = cPos
               /\ UNCHANGED <<cPc, cReturned, cListFailed>>
    /\ cRequested' = Append(cRequested, cPos)
    /\ UNCHANGED <<cClient, cRemote, cNames, cTokenCache, cSessionAuth>>
    /\ UNCHANGED notCrawl

\* one iteration of "while True" of list_tags: the request of page cPos.
\* A failed request, an empty page and a page without "next" leave the loop,
\* and list_tags returns the tags collected so far.
DockerPageRequest ==
    /\ cClient = "docker"
    /\ cPc = "page"
    /\ LET failed == cRemote.fail_at = cPos \/ cPos > Len(cRemote.pages)
           results == IF failed THEN <<>> ELSE cRemote.pages[cPos]
           has_next == cPos < Len(cRemote.pages)
           tags == cTags \o [i \in 1..Len(results) |-> docker_parse_tag(results[i])]
       IN IF failed
          THEN /\ cListFailed' = TRUE
               /\ cPc' = "done"
               /\ cReturned' = cTags
               /\ UNCHANGED <<cTags, cPos>>
          ELSE IF results = <<>>
          THEN /\ cPc' = "done"
               /\ cReturned' = cTags
               /\ UNCHANGED <<cTags, cPos, cListFailed>>
          ELSE IF ~has_next
          THEN /\ cTags' = tags
               /\ cPc' = "done"
               /\ cReturned' = tags
               /\ UNCHANGED <<cPos, cListFailed>>
          ELSE /\ cTags' = tags
               /\ cPos' = cPos + 1
               /\ UNCHANGED <<cPc, cReturned, cListFailed>>
    /\ cRequested' = Append(cRequested, cPos)
    /\ UNCHANGED <<cClient, cRemote, cNames, cTokenCache, cSessionAuth>>
    /\ UNCHANGED notCrawl

-----------------------------------------------------------------------------
(* crawler/mcr.py: MCRCrawler *)

\* _get_auth_token as it would be if the call that fetches the token stored
\* it and returned None
mcr_get_auth_token_storing_only(cache, repository, remote) ==
    IF repository \in DOMAIN cache
    THEN [token |-> Some(cache[repository]), cache |-> cache]
    ELSE IF remote.auth = "bearer"
    THEN [token |-> None,
          cache |-> (repository :> TokenFor(repository)) @@ cache]
    ELSE [token |-> None, cache |-> cache]

\* _get_auth_token: the cached token, or the challenge probe and the token
\* request; only an obtained token is stored
mcr_get_auth_token(cache, repository, remote) ==
    IF repository \in DOMAIN cache
    THEN [token |-> Some(cache[repository]), cache |-> cache]
    ELSE IF remote.auth = "bearer"
    THEN [token |-> Some(TokenFor(repository)),
          cache |-> (repository :> TokenFor(repository)) @@ cache]
    ELSE [token |-> None, cache |-> cache]

\* get_tag_metadata after _get_headers, with the token the headers carry
\* the manifest request is answered 200 with a JSON body that is not an
\* object (a list): manifest.get raises AttributeError, which the handler
\* of get_tag_metadata (except RequestException) does not catch
metadata_raises(remote, repository, entry, token) ==
    /\ Authorized(remote, repository, token)
    /\ entry.plan = "manifest_not_object"

\* get_tag_metadata when it returns (see metadata_raises)
mcr_get_tag_metadata(remote, repository, entry, token) ==
    LET m == OciManifest(entry) IN
    IF ~Authorized(remote, repository, token) \/ entry.plan = "manifest_fail"
    THEN MinimalTag(entry.name)
    ELSE IF m.schemaVersion = 2
    THEN IF entry.plan = "config_fail"
         THEN MinimalTag(entry.name)
         ELSE ImageTag(entry.name,
                       IF entry.plan = "config_non200" THEN None
                       ELSE ParseCreated(m.created),
                       Some(m.digest),
                       IF m.layers # <<>> THEN Some(SumSizes(m.layers)) ELSE None)
    ELSE ImageTag(entry.name, None, Some(m.digest), None)

-----------------------------------------------------------------------------
(* crawler/chainguard.py: ChainguardCrawler *)

\* _get_auth_token: a token request on every call, nothing is cached
cg_get_auth_token(repository, remote) ==
    IF remote.auth = "bearer" THEN Some(TokenFor(repository)) ELSE None

\* "if token: self.session.headers.update(...)": a failed token request
\* leaves the header of the session as it was
cg_session_auth(session_auth, token) ==
    IF token # None THEN token ELSE session_auth

\* get_tag_metadata after the token request, with the header of the session
cg_get_tag_metadata(remote, repository, entry, session_auth) ==
    LET m == OciManifest(entry) IN
    IF ~Authorized(remote, repository, session_auth)
       \/ entry.plan \in {"manifest_fail", "config_fail"}
    THEN MinimalTag(entry.name)
    ELSE IF entry.plan = "config_non200"
    THEN ImageTag(entry.name, None, Some(m.digest), None)
    ELSE ImageTag(entry.name, ParseCreated(m.created), Some(m.digest),
                  IF m.layers # <<>> THEN Some(SumSizes(m.layers)) ELSE None)

-----------------------------------------------------------------------------
(* list_tags of the OCI clients *)

\* what a request of the client carries and what asking for the token
\* leaves behind: MCR reads its token cache (_get_headers), Chainguard
\* requests a token and installs it on the session
oci_token_step(client, cache, session_auth, remote) ==
    LET auth == mcr_get_auth_token(cache, Repo, remote)
        session == cg_session_auth(session_auth, cg_get_auth_token(Repo, remote))
    IN IF client = "mcr"
       THEN [token |-> auth.token, cache |-> auth.cache, session |-> session_auth]
       ELSE [token |-> session, cache |-> cache, session |-> session]

oci_get_tag_metadata(client, remote, entry, token) ==
    IF client = "mcr"
    THEN mcr_get_tag_metadata(remote, Repo, entry, token)
    ELSE cg_get_tag_metadata(remote, Repo, entry, token)

\* the head of list_tags: the token, then the tags/list request.  A failed
\* request returns the empty list.
OciListRequest ==
    /\ cClient \in {"mcr", "chainguard"}
    /\ cPc = "list"
    /\ LET step == oci_token_step(cClient, cTokenCache, cSessionAuth, cRemote)
           ok == cRemote.listing = "ok" /\ Authorized(cRemote, Repo, step.token)
           tag_names == [i \in 1..Len(cRemote.entries) |-> cRemote.entries[i].name]
       IN /\ cTokenCache' = step.cache
          /\ cSessionAuth' = step.session
          /\ IF ~ok
             THEN /\ cListFailed' = TRUE
                  /\ cPc' = "done"
                  /\ cReturned' = <<>>
                  /\ UNCHANGED <<cNames, cPos>>
             ELSE IF cClient = "chainguard" /\ tag_names = <<>>
             THEN /\ cPc' = "done"
                  /\ cReturned' = <<>>
                  /\ UNCHANGED <<cNames, cPos, cListFailed>>
             ELSE /\ cNames' = tag_names
                  /\ cPos' = 1
                  /\ cPc' = "meta"
                  /\ UNCHANGED <<cListFailed, cReturned>>
    /\ UNCHANGED <<cClient, cRemote, cTags>>
    /\ UNCHANGED cRequested
    /\ UNCHANGED notCrawl

\* the loop body as it would be if a failed metadata fetch were not caught
\* in get_tag_metadata but by the handler around the loop: the listing ends
OciFetchMetadataAborting ==
    /\ cClient \in {"mcr", "chainguard"}
    /\ cPc = "meta"
    /\ cPos <= Len(cNames)
    /\ LET entry == cRemote.entries[cPos]
           step == oci_token_step(cClient, cTokenCache, cSessionAuth, cRemote)
           tag == oci_get_tag_metadata(cClient, cRemote, entry, step.token)
       IN /\ cTokenCache' = step.cache
          /\ cSessionAuth' = step.session
          /\ IF metadata_raises(cRemote, Repo, entry, step.token)
             THEN cPc' = "raised" /\ UNCHANGED <<cTags, cPos>>
             ELSE IF entry.plan \in {"manifest_fail", "config_fail"}
             THEN cTags' = cTags /\ cPos' = Len(cNames) + 1 /\ UNCHANGED cPc
             ELSE cTags' = Append(cTags, tag) /\ cPos' = cPos + 1 /\ UNCHANGED cPc
    /\ UNCHANGED <<cClient, cRemote, cNames, cListFailed, cReturned>>
    /\ UNCHANGED cRequested
    /\ UNCHANGED notCrawl

\* one iteration of "for tag_name in tag_names": get_tag_metadata, which
\* asks for the token again, and tags.append(tag); an exception that
\* get_tag_metadata lets through is no RequestException and leaves
\* list_tags as well
OciFetchMetadata ==
    /\ cClient \in {"mcr", "chainguard"}
    /\ cPc = "meta"
    /\ cPos <= Len(cNames)
    /\ LET entry == cRemote.entries[cPos]
           step == oci_token_step(cClient, cTokenCache, cSessionAuth, cRemote)
           tag == oci_get_tag_metadata(cClient, cRemote, entry, step.token)
       IN /\ cTokenCache' = step.cache
          /\ cSessionAuth' = step.session
          /\ IF metadata_raises(cRemote, Repo, entry, step.token)
             THEN cPc' = "raised" /\ UNCHANGED <<cTags, cPos>>
             ELSE cTags' = Append(cTags, tag) /\ cPos' = cPos + 1 /\ UNCHANGED cPc
    /\ UNCHANGED <<cClient, cRemote, cNames, cListFailed, cReturned>>
    /\ UNCHANGED cRequested
    /\ UNCHANGED notCrawl

\* "return tags" after the last tag name
OciReturn ==
    /\ cClient \in {"mcr", "chainguard"}
    /\ cPc = "meta"
    /\ cPos > Len(cNames)
    /\ cPc' = "done"
    /\ cReturned' = cTags
    /\ UNCHANGED <<cClient, cRemote, cPos, cNames, cTags, cTokenCache,
                   cSessionAuth, cListFailed>>
    /\ UNCHANGED cRequested
    /\ UNCHANGED notCrawl

-----------------------------------------------------------------------------
(* One call of list_tags (specification SpecCrawl) *)

\* a new client: an empty token cache, no Authorization header
CrawlInit ==
    /\ cClient \in {"docker", "mcr", "chainguard"}
    /\ cRemote \in IF cClient = "docker" THEN DockerRemotes ELSE OciRemotes
    /\ cPc = IF cClient = "docker" THEN "page" ELSE "list"
    /\ cPos = 1
    /\ cNames = <<>>
    /\ cTags = <<>>
    /\ cTokenCache = <<>>
    /\ cSessionAuth = None
    /\ cListFailed = FALSE
    /\ cReturned = <<>>
    /\ cRequested = <<>>

CrawlIdle ==
    /\ cClient = "none"
    /\ cRemote = <<>>
    /\ cPc = "idle"
    /\ cPos = 0
    /\ cNames = <<>>
    /\ cTags = <<>>
    /\ cTokenCache = <<>>
    /\ cSessionAuth = None
    /\ cListFailed = FALSE
    /\ cReturned = <<>>
    /\ cRequested = <<>>

CrawlNext ==
    \/ DockerPageRequest
    \/ OciListRequest
    \/ OciFetchMetadata
    \/ OciReturn

\* C9: a failed tag-listing request makes list_tags return the empty
\* sequence, for every client; a Docker Hub listing that fails on a later
\* page does not return the tags of the earlier pages.
C9_ListFailureReturnsEmpty ==
    cPc = "done" /\ cListFailed => cReturned = <<>>

\* the same for the OCI clients alone, whose only listing request is the
\* first request of the call
OciListFailureReturnsEmpty ==
    cPc = "done" /\ cListFailed /\ cClient # "docker" => cReturned = <<>>

\* the tags/list answer reached the client
OciListed ==
    /\ cClient \in {"mcr", "chainguard"}
    /\ cRemote.listing = "ok"
    /\ cRemote.auth # "bearer_down"

\* C10: list_tags of MCR and Chainguard returns one entry per listed tag
\* name, in the registry's order, and the entry of a tag whose manifest or
\* config request fails in transport is the minimal ImageTag of that name.
C10_MetadataFailureIsolated ==
    cPc = "done" /\ OciListed =>
        /\ Len(cReturned) = Len(cRemote.entries)
        /\ \A i \in 1..Len(cReturned) :
            /\ cReturned[i].name = cRemote.entries[i].name
            /\ cRemote.entries[i].plan \in {"manifest_fail", "config_fail"}
                => cReturned[i] = MinimalTag(cRemote.entries[i].name)

\* a listing whose first tag failed in transport and whose second tag came
\* back with its metadata
C10_Witness ==
    /\ cPc = "done"
    /\ OciListed
    /\ Len(cReturned) >= 2
    /\ cRemote.entries[1].plan \in {"manifest_fail", "config_fail"}
    /\ cReturned[1] = MinimalTag(cRemote.entries[1].name)
    /\ cReturned[2].created # None
    /\ cReturned[2].digest # None

-----------------------------------------------------------------------------
(* list_tags as one call, for the callers of the clients *)

RECURSIVE docker_list_from(_, _, _)
\* DockerHubCrawler.list_tags from page "page" on, with "tags" collected
docker_list_from(remote, page, tags) ==
    IF remote.fail_at = page \/ page > Len(remote.pages)
    THEN tags
    ELSE LET results == remote.pages[page]
             more == tags \o [i \in 1..Len(results) |-> docker_parse_tag(results[i])]
         IN IF results = <<>> THEN tags
            ELSE IF page >= Len(remote.pages) THEN more
            ELSE docker_list_from(remote, page + 1, more)

docker_list_tags(remote) == docker_list_from(remote, 1, <<>>)

\* MCRCrawler.list_tags with the token its requests carry
mcr_list_tags(remote, repository, token) ==
    IF remote.listing # "ok" \/ ~Authorized(remote, repository, token)
    THEN <<>>
    ELSE [i \in 1..Len(remote.entries) |->
            mcr_get_tag_metadata(remote, repository, remote.entries[i], token)]

-----------------------------------------------------------------------------
(* scripts/workflows/resolve-historical-versions.py: the inputs *)

UpstreamPython ==
    [full_ref |-> "python:3.11", registry_type |-> "docker", image |-> "python"]

UpstreamDotnet ==
    [full_ref |-> "mcr.microsoft.com/dotnet/runtime:8.0", registry_type |-> "mcr",
     image |-> "dotnet/runtime"]

ChainguardPython == [full_ref |-> "cgr.dev/chainguard/python:latest", tag |-> "latest"]

ChainguardDotnet ==
    [full_ref |-> "cgr.dev/chainguard/dotnet-runtime:latest", tag |-> "latest"]

\* a key a record lacks is None
Mapping(status, upstream, chainguard) ==
    [status |-> status, upstream |-> upstream, chainguard |-> chainguard]

\* two mapped records, a record the mapper could not map, and a record
\* marked mapped that lacks its 'chainguard' key
MappingKinds ==
    { Mapping("mapped", Some(UpstreamPython), Some(ChainguardPython)),
      Mapping("mapped", Some(UpstreamDotnet), Some(ChainguardDotnet)),
      Mapping("not_found", Some(UpstreamPython), None),
      Mapping("mapped", Some(UpstreamPython), None) }

\* resolve_single_mapping reaches the registry for this record
Resolvable(mapping) ==
    mapping.status = "mapped" /\ mapping.upstream # None /\ mapping.chainguard # None

\* what the network does for the calls made for one mapping: every call is
\* answered, every call times out, the calls to the token service time out
\* while the registry answers, or the tags listing is answered with a body
\* that is not a JSON object
Behaviours == {"ok", "timeout", "auth_down", "garbled"}

\* the wall clock of a driver run; the requests of a run take less than one
\* tick (the advance of the clock between the periods is in PeriodIteration)
DriverNow == StartClock

DockerTag(name, stamp, digest, size) ==
    [name |-> name, last_updated |-> Some(stamp), tag_last_pushed |-> None,
     images |-> << [digest |-> Some(digest), size |-> size] >>]

\* the tags of "python" on Docker Hub, on two pages
PythonPages ==
    << << DockerTag(<<"1", ".", "0">>,
                    Timestamp(TargetDate(DriverNow, Periods[3]), TRUE), "sha256:10", 5),
          DockerTag(<<"1", ".", "1", "-", "R", "C", "1">>,
                    Timestamp(TargetDate(DriverNow, Periods[2]), TRUE), "sha256:rc", 6) >>,
       << DockerTag(<<"1", ".", "1">>,
                    Timestamp(TargetDate(DriverNow, Periods[2]) + 1, TRUE), "sha256:11", 7) >> >>

\* the tags of "dotnet/runtime" on MCR
DotnetEntries ==
    << OciEntry(<<"1", ".", "0">>, "ok",
                Some(Timestamp(TargetDate(DriverNow, Periods[2]), TRUE))) >>

\* the registry as the calls of one mapping meet it
DriverRemote(upstream, env) ==
    IF upstream.registry_type = "mcr"
    THEN [auth |-> IF env \in {"timeout", "auth_down"} THEN "bearer_down" ELSE "bearer",
          listing |-> IF env = "timeout" THEN "fail" ELSE "ok",
          entries |-> DotnetEntries]
    ELSE [pages |-> PythonPages, fail_at |-> IF env = "timeout" THEN 1 ELSE 0]

-----------------------------------------------------------------------------
(* HistoricalVersionResolver.resolve_versions and resolve_single_mapping *)

\* datetime.isoformat()
IsoFormat(dt) ==
    <<"iso", dt.instant, IF dt.aware THEN "+00:00" ELSE "">>

\* the serializable form of a resolved tag
VersionEntry(tag) ==
    [tag |-> tag.name,
     created |-> IF tag.created # None THEN Some(IsoFormat(tag.created[1])) ELSE None,
     digest |-> tag.digest,
     size |-> tag.size]

PeriodNames == { Periods[k].name : k \in 1..Len(Periods) }

PeriodNamed(name) == CHOOSE k \in 1..Len(Periods) : Periods[k].name = name

\* {}
EmptyDict == <<>>

\* the conversion of the tags found for the periods, in the order of
\* self.periods
versions_of(found) ==
    [n \in PeriodNames |->
        LET tag == found[PeriodNamed(n)]
        IN IF tag # None THEN Some(VersionEntry(tag[1])) ELSE None]

\* {**mapping, 'upstream_versions': ..., 'chainguard_versions': ...}
WithVersions(mapping, upstream_versions, chainguard_versions) ==
    ("upstream_versions" :> upstream_versions)
        @@ ("chainguard_versions" :> chainguard_versions)
        @@ mapping

\* the original mapping with no versions
NoVersions(mapping) == WithVersions(mapping, None, None)

\* the simplified Chainguard handling
chainguard_versions_of(chainguard) ==
    [n \in PeriodNames |->
        IF n = "current"
        THEN Some([tag |-> chainguard.tag, created |-> None, digest |-> None,
                   size |-> None])
        ELSE None]

\* the mapping goes to the MCR crawler
UsesMcr(mapping) ==
    Resolvable(mapping) /\ mapping.upstream[1].registry_type = "mcr"

\* resolve_versions on the Docker Hub crawler: list_tags once per period;
\* any exception of the resolution is caught and gives {}
docker_resolve_versions(upstream, env) ==
    IF env = "garbled" THEN EmptyDict
    ELSE LET all_tags == docker_list_tags(DriverRemote(upstream, env))
         IN versions_of([k \in 1..Len(Periods) |->
                find_latest_at_date(all_tags, TargetDate(DriverNow, Periods[k]),
                                    DefaultQuery)])

\* resolve_versions on the MCR crawler is a sequence of requests, each after
\* a call of _get_auth_token: for every period the tags/list request
\* (k = 0) and then get_tag_metadata of tag k. "state" is "more" while
\* requests remain, "raised" when the resolution raised an exception.
WorkInit ==
    [period |-> 1, k |-> 0, tags |-> <<>>, found |-> <<>>, state |-> "more"]

\* the end of find_latest_at_date for the period, and the next period
period_done(work, tags) ==
    LET found == Append(work.found,
                        find_latest_at_date(
                            tags, TargetDate(DriverNow, Periods[work.period]),
                            DefaultQuery))
    IN [period |-> work.period + 1, k |-> 0, tags |-> <<>>, found |-> found,
        state |-> IF work.period = Len(Periods) THEN "finished" ELSE "more"]

\* the request that follows a call of _get_auth_token, with its token
mcr_request(work, upstream, env, token) ==
    LET remote == DriverRemote(upstream, env)
        repo == upstream.image
    IN IF work.k = 0
       THEN IF remote.listing # "ok" \/ ~Authorized(remote, repo, token)
            THEN period_done(work, <<>>)
            ELSE IF env = "garbled"
            THEN [work EXCEPT !.state = "raised"]
            ELSE IF remote.entries = <<>>
            THEN period_done(work, <<>>)
            ELSE [work EXCEPT !.k = 1]
       ELSE LET tags == Append(work.tags,
                               mcr_get_tag_metadata(remote, repo,
                                                    remote.entries[work.k], token))
            IN IF work.k < Len(remote.entries)
               THEN [work EXCEPT !.k = work.k + 1, !.tags = tags]
               ELSE period_done(work, tags)

\* what resolve_versions returns for the MCR resolution that ended
mcr_versions(work) ==
    IF work.state = "raised" THEN EmptyDict ELSE versions_of(work.found)

RECURSIVE mcr_resolve(_, _, _, _)
\* the MCR resolution run from "work" to its end by one thread
mcr_resolve(work, cache, upstream, env) ==
    IF work.state # "more"
    THEN [versions |-> mcr_versions(work), cache |-> cache]
    ELSE LET auth == mcr_get_auth_token(cache, upstream.image,
                                        DriverRemote(upstream, env))
         IN mcr_resolve(mcr_request(work, upstream, env, auth.token), auth.cache,
                        upstream, env)

Returned(value, cache) == [kind |-> "return", value |-> Some(value), cache |-> cache]

Raised(cache) == [kind |-> "raise", value |-> None, cache |-> cache]

\* the result of a mapped record whose upstream versions are "versions"
resolved(mapping, versions) ==
    WithVersions(mapping, Some(versions),
                 Some(chainguard_versions_of(mapping.chainguard[1])))

\* resolve_single_mapping gets as far as resolve_versions, whose first
\* list_tags call sends a request whatever the registry then does: the
\* status is 'mapped' and the keys 'upstream' and 'chainguard' were read
reaches_registry(mapping) ==
    /\ mapping.status = "mapped"
    /\ mapping.upstream # None
    /\ mapping.chainguard # None

\* resolve_single_mapping as it would be without the test of the status
resolve_single_mapping_unskipped(mapping, env, cache) ==
    IF mapping.upstream = None \/ mapping.chainguard = None
    THEN Raised(cache)
    ELSE IF mapping.upstream[1].registry_type = "mcr"
    THEN LET r == mcr_resolve(WorkInit, cache, mapping.upstream[1], env)
         IN Returned(resolved(mapping, r.versions), r.cache)
    ELSE Returned(resolved(mapping, docker_resolve_versions(mapping.upstream[1], env)),
                  cache)

\* resolve_single_mapping run by one thread with the token cache "cache";
\* mapping['chainguard'] of a record without the key raises KeyError before
\* any request is made
resolve_single_mapping(mapping, env, cache) ==
    IF mapping.status # "mapped"
    THEN Returned(NoVersions(mapping), cache)
    ELSE IF mapping.upstream = None \/ mapping.chainguard = None
    THEN Raised(cache)
    ELSE IF mapping.upstream[1].registry_type = "mcr"
    THEN LET r == mcr_resolve(WorkInit, cache, mapping.upstream[1], env)
         IN Returned(resolved(mapping, r.versions), r.cache)
    ELSE Returned(resolved(mapping, docker_resolve_versions(mapping.upstream[1], env)),
                  cache)

-----------------------------------------------------------------------------
(* main: resolve_all_mappings_sequential and resolve_all_mappings_parallel *)

\* A behaviour runs main twice on the same mappings against the same
\* registry behaviour: with --workers=1, then with --workers=dWorkers > 1.
\* Each run builds its own HistoricalVersionResolver.

Batches == UNION { [1..n -> MappingKinds] : n \in 1..MaxMappings }

\* the registry behaviours that differ for the mapping
BehavioursOf(mapping) ==
    IF ~Resolvable(mapping) THEN {"ok"}
    ELSE IF UsesMcr(mapping) THEN Behaviours
    ELSE Behaviours \ {"auth_down"}

DriverInit ==
    /\ dMappings \in Batches
    /\ dEnv \in [1..Len(dMappings) -> Behaviours]
    /\ \A i \in 1..Len(dMappings) : dEnv[i] \in BehavioursOf(dMappings[i])
    /\ dWorkers \in 2..MaxWorkers
    /\ dPhase = "sequential"
    /\ dTokenCache = <<>>
    /\ dRequested = {}
    /\ sIdx = 1
    /\ sResults = <<>>
    /\ sOutcome = "running"
    /\ tPc = <<>>
    /\ tToken = <<>>
    /\ tWork = <<>>
    /\ tFuture = <<>>
    /\ parResults = <<>>
    /\ parWrites = <<>>
    /\ parOrder = <<>>
    /\ parPc = "idle"

DriverIdle ==
    /\ dMappings = <<>>
    /\ dEnv = <<>>
    /\ dWorkers = 0
    /\ dPhase = "idle"
    /\ dTokenCache = <<>>
    /\ dRequested = {}
    /\ sIdx = 0
    /\ sResults = <<>>
    /\ sOutcome = "idle"
    /\ tPc = <<>>
    /\ tToken = <<>>
    /\ tWork = <<>>
    /\ tFuture = <<>>
    /\ parResults = <<>>
    /\ parWrites = <<>>
    /\ parOrder = <<>>
    /\ parPc = "idle"

inputVars == <<dMappings, dEnv, dWorkers>>

seqVars == <<sIdx, sResults, sOutcome>>

taskVars == <<tPc, tToken, tWork, tFuture>>

mainVars == <<parResults, parWrites, parOrder, parPc>>

\* one iteration of the loop of resolve_all_mappings_sequential; an
\* exception of resolve_single_mapping leaves the function
SequentialStep ==
    /\ dPhase = "sequential"
    /\ sOutcome = "running"
    /\ sIdx <= Len(dMappings)
    /\ LET result == resolve_single_mapping(dMappings[sIdx], dEnv[sIdx], dTokenCache)
       IN /\ dTokenCache' = result.cache
          /\ IF result.kind = "raise"
             THEN sOutcome' = "raised" /\ UNCHANGED <<sResults, sIdx>>
             ELSE /\ sResults' = Append(sResults, result.value[1])
                  /\ sIdx' = sIdx + 1
                  /\ UNCHANGED sOutcome
    /\ UNCHANGED <<inputVars, dPhase, taskVars, mainVars>>
    /\ dRequested' = IF reaches_registry(dMappings[sIdx])
                     THEN dRequested \cup {sIdx} ELSE dRequested
    /\ UNCHANGED notDriver

\* "return results"
SequentialReturn ==
    /\ dPhase = "sequential"
    /\ sOutcome = "running"
    /\ sIdx > Len(dMappings)
    /\ sOutcome' = "returned"
    /\ UNCHANGED <<inputVars, dPhase, dTokenCache, sIdx, sResults, taskVars, mainVars>>
    /\ UNCHANGED dRequested
    /\ UNCHANGED notDriver

\* the second run: a new resolver, results = [None] * total, and every
\* task submitted to the executor
ParallelSubmit ==
    /\ dPhase = "sequential"
    /\ sOutcome \in {"returned", "raised"}
    /\ dPhase' = "parallel"
    /\ dTokenCache' = <<>>
    /\ tPc' = [i \in 1..Len(dMappings) |-> "pending"]
    /\ tToken' = [i \in 1..Len(dMappings) |-> None]
    /\ tWork' = [i \in 1..Len(dMappings) |-> WorkInit]
    /\ tFuture' = [i \in 1..Len(dMappings) |-> None]
    /\ parResults' = [i \in 1..Len(dMappings) |-> None]
    /\ parWrites' = [i \in 1..Len(dMappings) |-> 0]
    /\ parOrder' = <<>>
    /\ parPc' = "collecting"
    /\ UNCHANGED <<inputVars, seqVars>>
    /\ dRequested' = {}
    /\ UNCHANGED notDriver

\* the tasks a worker thread is running
Running == { i \in 1..Len(tPc) : tPc[i] \in {"started", "probed"} }

\* a free worker takes the oldest queued task
TaskStart(i) ==
    /\ dPhase = "parallel"
    /\ tPc[i] = "pending"
    /\ \A j \in 1..(i - 1) : tPc[j] # "pending"
    /\ Cardinality(Running) < dWorkers
    /\ tPc' = [tPc EXCEPT ![i] = "started"]
    /\ UNCHANGED <<inputVars, dPhase, dTokenCache, seqVars, tToken, tWork, tFuture,
                   mainVars>>
    /\ UNCHANGED dRequested
    /\ UNCHANGED notDriver

\* the task of an MCR mapping after the request that follows an
\* _get_auth_token: the future completes when no request remains
TaskAfterRequest(i, token) ==
    LET work == mcr_request(tWork[i], dMappings[i].upstream[1], dEnv[i], token)
    IN /\ tWork' = [tWork EXCEPT ![i] = work]
       /\ IF work.state = "more"
          THEN /\ tPc' = [tPc EXCEPT ![i] = "started"]
               /\ UNCHANGED tFuture
          ELSE /\ tPc' = [tPc EXCEPT ![i] = "done"]
               /\ tFuture' = [tFuture EXCEPT ![i] =
                     Some(Returned(resolved(dMappings[i], mcr_versions(work)), <<>>))]

\* _get_auth_token in a worker thread up to its return or to the answer of
\* the token service: with a token answered, the cache is written in
\* TaskStoreToken, after other threads may have run
TaskAuth(i) ==
    /\ dPhase = "parallel"
    /\ tPc[i] = "started"
    /\ UsesMcr(dMappings[i])
    /\ LET auth == mcr_get_auth_token(dTokenCache, dMappings[i].upstream[1].image,
                                      DriverRemote(dMappings[i].upstream[1], dEnv[i]))
       IN IF auth.cache # dTokenCache
          THEN /\ tToken' = [tToken EXCEPT ![i] = auth.token]
               /\ tPc' = [tPc EXCEPT ![i] = "probed"]
               /\ UNCHANGED <<tWork, tFuture>>
          ELSE /\ TaskAfterRequest(i, auth.token)
               /\ UNCHANGED tToken
    /\ UNCHANGED <<inputVars, dPhase, dTokenCache, seqVars, mainVars>>
    /\ dRequested' = dRequested \cup {i}
    /\ UNCHANGED notDriver

\* self._token_cache[repository] = token, the return of the token, and the
\* request that carries it
TaskStoreToken(i) ==
    /\ dPhase = "parallel"
    /\ tPc[i] = "probed"
    /\ dTokenCache' =
        (dMappings[i].upstream[1].image :> tToken[i][1]) @@ dTokenCache
    /\ TaskAfterRequest(i, tToken[i])
    /\ UNCHANGED <<inputVars, dPhase, seqVars, tToken, mainVars>>
    /\ dRequested' = dRequested \cup {i}
    /\ UNCHANGED notDriver

\* resolve_single_mapping of a task that shares nothing with the others:
\* the future completes with its result or its exception
TaskFinish(i) ==
    /\ dPhase = "parallel"
    /\ tPc[i] = "started"
    /\ ~UsesMcr(dMappings[i])
    /\ tFuture' = [tFuture EXCEPT ![i] =
                      Some(resolve_single_mapping(dMappings[i], dEnv[i], <<>>))]
    /\ tPc' = [tPc EXCEPT ![i] = "done"]
    /\ UNCHANGED <<inputVars, dPhase, dTokenCache, seqVars, tToken, tWork, mainVars>>
    /\ dRequested' = IF reaches_registry(dMappings[i])
                     THEN dRequested \cup {i} ELSE dRequested
    /\ UNCHANGED notDriver

\* the slot of a completed future: its result, or the original mapping with
\* no versions when it raised
SlotValue(i) ==
    IF tFuture[i][1].kind = "return"
    THEN tFuture[i][1].value[1]
    ELSE NoVersions(dMappings[i])

\* the loop body as it would be if it filled the slots in completion order
CollectInCompletionOrder(i) ==
    /\ dPhase = "parallel"
    /\ parPc = "collecting"
    /\ tPc[i] = "done"
    /\ parResults' = [parResults EXCEPT ![Len(parOrder) + 1] = Some(SlotValue(i))]
    /\ parWrites' = [parWrites EXCEPT ![Len(parOrder) + 1] = @ + 1]
    /\ parOrder' = Append(parOrder, i)
    /\ tPc' = [tPc EXCEPT ![i] = "collected"]
    /\ UNCHANGED <<inputVars, dPhase, dTokenCache, seqVars, tToken, tWork, tFuture,
                   parPc>>
    /\ UNCHANGED dRequested
    /\ UNCHANGED notDriver

\* one iteration of "for future in as_completed(future_to_index)" in the
\* main thread: results[index] is written, whatever the future holds
Collect(i) ==
    /\ dPhase = "parallel"
    /\ parPc = "collecting"
    /\ tPc[i] = "done"
    /\ parResults' = [parResults EXCEPT ![i] = Some(SlotValue(i))]
    /\ parWrites' = [parWrites EXCEPT ![i] = @ + 1]
    /\ parOrder' = Append(parOrder, i)
    /\ tPc' = [tPc EXCEPT ![i] = "collected"]
    /\ UNCHANGED <<inputVars, dPhase, dTokenCache, seqVars, tToken, tWork, tFuture,
                   parPc>>
    /\ UNCHANGED dRequested
    /\ UNCHANGED notDriver

\* the return as it would be if the loop ended with the first future
ParallelReturnEarly ==
    /\ dPhase = "parallel"
    /\ parPc = "collecting"
    /\ \E i \in 1..Len(tPc) : tPc[i] = "collected"
    /\ parPc' = "returned"
    /\ dPhase' = "end"
    /\ UNCHANGED <<inputVars, dTokenCache, seqVars, taskVars, parResults, parWrites,
                   parOrder>>
    /\ UNCHANGED dRequested
    /\ UNCHANGED notDriver

\* as_completed is exhausted and the executor has shut down: "return results"
ParallelReturn ==
    /\ dPhase = "parallel"
    /\ parPc = "collecting"
    /\ \A i \in 1..Len(tPc) : tPc[i] = "collected"
    /\ parPc' = "returned"
    /\ dPhase' = "end"
    /\ UNCHANGED <<inputVars, dTokenCache, seqVars, taskVars, parResults, parWrites,
                   parOrder>>
    /\ UNCHANGED dRequested
    /\ UNCHANGED notDriver

DriverNext ==
    \/ SequentialStep
    \/ SequentialReturn
    \/ ParallelSubmit
    \/ \E i \in 1..Len(dMappings) : TaskStart(i)
    \/ \E i \in 1..Len(dMappings) : TaskAuth(i)
    \/ \E i \in 1..Len(dMappings) : TaskStoreToken(i)
    \/ \E i \in 1..Len(dMappings) : TaskFinish(i)
    \/ \E i \in 1..Len(dMappings) : Collect(i)
    \/ ParallelReturn

-----------------------------------------------------------------------------
(* The batch driver: properties *)

\* resolve_all_mappings_sequential as a function of the batch: the list it
\* returns, or None when an exception leaves it
RECURSIVE sequential_from(_, _, _, _, _)
sequential_from(mappings, env, i, cache, results) ==
    IF i > Len(mappings) THEN Some(results)
    ELSE LET r == resolve_single_mapping(mappings[i], env[i], cache)
         IN IF r.kind = "raise" THEN None
            ELSE sequential_from(mappings, env, i + 1, r.cache,
                                 Append(results, r.value[1]))

resolve_all_mappings_sequential(mappings, env) ==
    sequential_from(mappings, env, 1, <<>>, <<>>)

\* every field of the mapping is a field of the output, with its value
Carries(out, mapping) ==
    \A f \in DOMAIN mapping : f \in DOMAIN out /\ out[f] = mapping[f]

\* a record marked mapped that lacks a key resolve_single_mapping reads
Malformed(mapping) == mapping.status = "mapped" /\ ~Resolvable(mapping)

\* C1: whatever the worker count and the order in which the tasks complete,
\* a list the batch driver returns has one entry per input mapping, and
\* entry i carries the fields of input mapping i.
C1_OutputMatchesInput ==
    /\ sOutcome = "returned" =>
          /\ Len(sResults) = Len(dMappings)
          /\ \A i \in 1..Len(dMappings) : Carries(sResults[i], dMappings[i])
    /\ parPc = "returned" =>
          /\ Len(parResults) = Len(dMappings)
          /\ \A i \in 1..Len(dMappings) :
                parResults[i] # None /\ Carries(parResults[i][1], dMappings[i])

\* both runs returned, and in the parallel one the task of the second of
\* two different mappings completed first
C1_Witness ==
    /\ sOutcome = "returned"
    /\ parPc = "returned"
    /\ parOrder = <<2, 1>>
    /\ dMappings[1] # dMappings[2]

\* C2: an exception in the resolution of one mapping does not abort the
\* batch, with one worker or with several: the driver returns the full
\* list, and the slot of that mapping holds the original mapping with
\* upstream_versions and chainguard_versions None.
C2_FailureDoesNotAbort ==
    /\ sOutcome # "raised"
    /\ sOutcome = "returned" =>
          \A i \in 1..Len(dMappings) :
              Malformed(dMappings[i]) => sResults[i] = NoVersions(dMappings[i])
    /\ parPc = "returned" =>
          \A i \in 1..Len(dMappings) :
              Malformed(dMappings[i]) => parResults[i] = Some(NoVersions(dMappings[i]))

\* C3: on the same mappings and the same registry behaviour, the run with
\* one worker gives the same list, in the same order, as the run with
\* several workers.
C3_SequentialEqualsParallel ==
    parPc = "returned" =>
        /\ sOutcome = "returned"
        /\ sResults = [i \in 1..Len(parResults) |-> parResults[i][1]]

\* C4: making the resolution of mapping k fail changes the result of no
\* other mapping: the run where every call of mapping k is answered and the
\* run on the same batch where every call of mapping k times out give the
\* same output[i] for every i other than k.
C4_FailureIsolated ==
    sOutcome = "returned" =>
        \A k \in 1..Len(dMappings) :
            Resolvable(dMappings[k]) /\ dEnv[k] = "ok" =>
                LET failing == resolve_all_mappings_sequential(
                                   dMappings, [dEnv EXCEPT ![k] = "timeout"])
                IN \A i \in 1..Len(dMappings) \ {k} : sResults[i] = failing[1][i]

\* C5: in the parallel driver no slot is written twice, a written slot
\* holds the outcome of the task submitted with that index, and when the
\* driver returns every task has been collected and every slot has been
\* written once, so that no slot is still None.
C5_SlotsWrittenOnce ==
    /\ \A i \in 1..Len(parWrites) : parWrites[i] <= 1
    /\ \A i \in 1..Len(parResults) :
          parResults[i] # None =>
              tPc[i] = "collected" /\ parResults[i] = Some(SlotValue(i))
    /\ parPc = "returned" =>
          \A i \in 1..Len(parResults) :
              tPc[i] = "collected" /\ parWrites[i] = 1 /\ parResults[i] # None

\* the parallel driver returned a full batch in which the future of one
\* task held an exception and the future of another a result
C5_Witness ==
    /\ parPc = "returned"
    /\ Len(parResults) = MaxMappings
    /\ \E i, j \in 1..Len(tFuture) :
          tFuture[i][1].kind = "raise" /\ tFuture[j][1].kind = "return"

\* Scenario B of the specification: three mapped records, every call made
\* for the second times out, one worker and then three
ScenarioBInit ==
    /\ dMappings \in [1..3 -> { m \in MappingKinds : Resolvable(m) }]
    /\ dEnv = <<"ok", "timeout", "ok">>
    /\ dWorkers = 3
    /\ dPhase = "sequential"
    /\ dTokenCache = <<>>
    /\ dRequested = {}
    /\ sIdx = 1
    /\ sResults = <<>>
    /\ sOutcome = "running"
    /\ tPc = <<>>
    /\ tToken = <<>>
    /\ tWork = <<>>
    /\ tFuture = <<>>
    /\ parResults = <<>>
    /\ parWrites = <<>>
    /\ parOrder = <<>>
    /\ parPc = "idle"

\* what resolve_single_mapping returns for the mapping resolved on a new
\* resolver with every call answered
FullyResolved(mapping) == resolve_single_mapping(mapping, "ok", <<>>).value[1]

\* in scenario B both runs return three elements, the same ones, and the
\* first and the third are fully resolved
ScenarioBOthersResolved ==
    parPc = "returned" =>
        /\ sOutcome = "returned"
        /\ Len(sResults) = 3
        /\ sResults = [i \in 1..Len(parResults) |-> parResults[i][1]]
        /\ sResults[1] = FullyResolved(dMappings[1])
        /\ sResults[3] = FullyResolved(dMappings[3])

\* C11: in scenario B the driver returns three elements, the same with one
\* worker and with three; the first and the third are fully resolved and
\* the second is the failure record: the original mapping with
\* upstream_versions and chainguard_versions None.
C11_ScenarioB ==
    parPc = "returned" =>
        /\ ScenarioBOthersResolved
        /\ sResults[2] = NoVersions(dMappings[2])

-----------------------------------------------------------------------------
(* One call of filter_tags or of sort_tags_by_date (specification SpecUtil) *)

\* no pattern, the empty pattern, a pattern the release tags match, and a
\* pattern only the release candidate matches
Patterns ==
    { None, Some(<<>>), Some(<<"1", ".", "1">>), Some(<<"R", "C">>) }

UtilArgs(op, include_dev, only_semver, pattern, reverse) ==
    [op |-> op, include_dev |-> include_dev, only_semver |-> only_semver,
     pattern |-> pattern, reverse |-> reverse]

\* the arguments of a call; those the operation does not take are fixed
UtilCalls ==
    { UtilArgs("filter_tags", d, v, p, TRUE) :
        d \in BOOLEAN, v \in BOOLEAN, p \in Patterns }
    \cup { UtilArgs("sort_tags_by_date", FALSE, FALSE, None, r) : r \in BOOLEAN }

UtilInit ==
    /\ uTags \in Listings(MaxTags)
    /\ uArgs \in UtilCalls
    /\ uPc = "call"
    /\ uOut = <<>>

UtilIdle ==
    /\ uTags = <<>>
    /\ uArgs = UtilArgs("none", FALSE, FALSE, None, TRUE)
    /\ uPc = "idle"
    /\ uOut = <<>>

FilterTagsCall ==
    /\ uPc = "call"
    /\ uArgs.op = "filter_tags"
    /\ uOut' = filter_tags(uTags, uArgs.include_dev, uArgs.only_semver, uArgs.pattern)
    /\ uPc' = "done"
    /\ UNCHANGED <<uTags, uArgs>>
    /\ UNCHANGED notUtil

SortTagsByDateCall ==
    /\ uPc = "call"
    /\ uArgs.op = "sort_tags_by_date"
    /\ uOut' = sort_tags_by_date(uTags, uArgs.reverse)
    /\ uPc' = "done"
    /\ UNCHANGED <<uTags, uArgs>>
    /\ UNCHANGED notUtil

UtilNext ==
    \/ FilterTagsCall
    \/ SortTagsByDateCall

\* C12: filter_tags called with include_dev=False returns no tag that
\* is_dev classifies as a development tag, whatever only_semver and pattern.
C12_NoDevTagReturned ==
    uPc = "done" /\ uArgs.op = "filter_tags" /\ ~uArgs.include_dev =>
        \A i \in 1..Len(uOut) : ~is_dev(uOut[i].name)

\* a listing with the release candidate, filtered with a pattern the release
\* candidate matches and include_dev=False: a release tag is returned
C12_Witness ==
    /\ uPc = "done"
    /\ uArgs.op = "filter_tags"
    /\ ~uArgs.include_dev
    /\ uArgs.pattern = Some(<<"1", ".", "1">>)
    /\ \E i \in 1..Len(uTags) : is_dev(uTags[i].name)
    /\ uOut # <<>>

Undated(tags) == SelectSeq(tags, LAMBDA t : t.created = None)

\* C13: sort_tags_by_date returns the tags it was given with every undated
\* tag after every dated tag, in both directions; the undated tags keep
\* their input order and the dated tags are ordered by created, descending
\* for reverse=True and ascending for reverse=False.
C13_UndatedLast ==
    uPc = "done" /\ uArgs.op = "sort_tags_by_date" =>
        /\ Len(uOut) = Len(uTags)
        /\ { uOut[i] : i \in 1..Len(uOut) } = { uTags[i] : i \in 1..Len(uTags) }
        /\ \A i, j \in 1..Len(uOut) :
              i < j =>
                 /\ uOut[i].created = None => uOut[j].created = None
                 /\ uOut[i].created # None /\ uOut[j].created # None =>
                       IF uArgs.reverse
                       THEN uOut[i].created[1].instant >= uOut[j].created[1].instant
                       ELSE uOut[i].created[1].instant <= uOut[j].created[1].instant
        /\ Undated(uOut) = Undated(uTags)

\* an ascending sort of a listing that starts with an undated tag and holds
\* a dated tag and a second undated tag
C13_Witness ==
    /\ uPc = "done"
    /\ uArgs.op = "sort_tags_by_date"
    /\ ~uArgs.reverse
    /\ uTags # <<>>
    /\ uTags[1].created = None
    /\ Len(Undated(uTags)) >= 2
    /\ Len(Undated(uTags)) < Len(uTags)

-----------------------------------------------------------------------------
(* The lifetime of one client instance (specification SpecClient) *)

\* the repositories the calls name
ClientRepos == {Repo, "dotnet/sdk"}

\* session.get(...): the request, the repository it is for and the bearer
\* token it carries
Get(what, repo, bearer) ==
    [op |-> "GET", what |-> what, repo |-> repo, bearer |-> bearer]

\* time.sleep(self.rate_limit_delay)
Sleep == [op |-> "sleep", what |-> "rate_limit_delay", repo |-> "", bearer |-> None]

\* the state of a client instance
Client(cache, session, log) == [cache |-> cache, session |-> session, log |-> log]

Sent(cl, entries) == [cl EXCEPT !.log = @ \o entries]

\* MCRCrawler._get_auth_token: nothing is sent on a cache hit; otherwise the
\* probe, and the token request when the probe is answered with a challenge
mcr_auth_call(cl, repo, remote) ==
    LET auth == mcr_get_auth_token(cl.cache, repo, remote)
        sent == IF repo \in DOMAIN cl.cache THEN <<>>
                ELSE IF remote.auth = "open" THEN << Get("probe", repo, None) >>
                ELSE << Get("probe", repo, None), Get("token", repo, None) >>
    IN [token |-> auth.token,
        client |-> Sent([cl EXCEPT !.cache = auth.cache], sent)]

\* MCRCrawler.get_tag_metadata: the manifest, and the config blob when the
\* manifest was answered
mcr_metadata_call(cl, repo, remote, entry) ==
    LET a == mcr_auth_call(cl, repo, remote)
        answered == Authorized(remote, repo, a.token) /\ entry.plan # "manifest_fail"
        sent == << Get("manifest", repo, a.token) >>
                \o IF answered THEN << Get("config", repo, a.token) >> ELSE <<>>
    IN [tag |-> mcr_get_tag_metadata(remote, repo, entry, a.token),
        client |-> Sent(a.client, sent)]

\* ChainguardCrawler._get_auth_token and the update of the session header;
\* the token request goes through the session and carries its header
cg_auth_call(cl, repo, remote) ==
    LET token == cg_get_auth_token(repo, remote)
    IN Sent([cl EXCEPT !.session = cg_session_auth(cl.session, token)],
            << Get("token", repo, cl.session) >>)

\* ChainguardCrawler.get_tag_metadata
cg_metadata_call(cl, repo, remote, entry) ==
    LET a == cg_auth_call(cl, repo, remote)
        answered == Authorized(remote, repo, a.session) /\ entry.plan # "manifest_fail"
        sent == << Get("manifest", repo, a.session) >>
                \o IF answered THEN << Get("config", repo, a.session) >> ELSE <<>>
    IN [tag |-> cg_get_tag_metadata(remote, repo, entry, a.session),
        client |-> Sent(a, sent)]

\* get_tag_metadata of the OCI clients
metadata_call(kind, cl, repo, remote, entry) ==
    IF kind = "mcr" THEN mcr_metadata_call(cl, repo, remote, entry)
    ELSE cg_metadata_call(cl, repo, remote, entry)

RECURSIVE metadata_loop(_, _, _, _, _, _)
\* "for tag_name in tag_names": the sleep, get_tag_metadata, tags.append
metadata_loop(kind, cl, repo, remote, k, tags) ==
    IF k > Len(remote.entries) THEN [tags |-> tags, client |-> cl]
    ELSE LET m == metadata_call(kind, Sent(cl, << Sleep >>), repo, remote,
                                remote.entries[k])
         IN metadata_loop(kind, m.client, repo, remote, k + 1, Append(tags, m.tag))

\* list_tags of the OCI clients
oci_list_call(kind, cl, repo, remote) ==
    LET a == IF kind = "mcr" THEN mcr_auth_call(cl, repo, remote)
             ELSE [token |-> cg_auth_call(cl, repo, remote).session,
                   client |-> cg_auth_call(cl, repo, remote)]
        listed == Sent(a.client, << Get("list", repo, a.token) >>)
    IN IF remote.listing = "ok" /\ Authorized(remote, repo, a.token)
       THEN metadata_loop(kind, listed, repo, remote, 1, <<>>)
       ELSE [tags |-> <<>>, client |-> listed]

RECURSIVE docker_page_requests(_, _, _)
\* the requests and sleeps of the page loop of DockerHubCrawler.list_tags
docker_page_requests(repo, remote, page) ==
    << Get("page", repo, None) >>
    \o IF remote.fail_at = page \/ page > Len(remote.pages) THEN <<>>
       ELSE IF remote.pages[page] = <<>> \/ page >= Len(remote.pages) THEN <<>>
       ELSE << Sleep >> \o docker_page_requests(repo, remote, page + 1)

\* list_tags of a client
list_call(kind, cl, repo, remote) ==
    IF kind = "docker"
    THEN [tags |-> docker_list_tags(remote),
          client |-> Sent(cl, docker_page_requests(repo, remote, 1))]
    ELSE oci_list_call(kind, cl, repo, remote)

RECURSIVE periods_call(_, _, _, _, _, _)
\* find_tags_for_periods with the clock at DriverNow: list_tags and the
\* resolution of each period, from period k on
periods_call(kind, cl, repo, remote, k, found) ==
    IF k > Len(Periods) THEN [found |-> found, client |-> cl]
    ELSE LET l == list_call(kind, cl, repo, remote)
             tag == find_latest_at_date(l.tags, TargetDate(DriverNow, Periods[k]),
                                        DefaultQuery)
         IN periods_call(kind, l.client, repo, remote, k + 1, Append(found, tag))

\* what the registry does for a repository
ClientRemotes(kind) ==
    IF kind = "docker"
    THEN { [pages |-> PythonPages, fail_at |-> f] : f \in 0..Len(PythonPages) }
    ELSE { [auth |-> a, listing |-> l, entries |-> DotnetEntries] :
             a \in {"open", "bearer", "bearer_down"}, l \in {"ok", "fail"} }

\* a new client instance
ClientInit ==
    /\ kClient \in {"docker", "mcr", "chainguard"}
    /\ kRemote \in [ClientRepos -> ClientRemotes(kClient)]
    /\ kCache = <<>>
    /\ kSession = None
    /\ kLog = <<>>
    /\ kResults = <<>>

ClientIdle ==
    /\ kClient = "none"
    /\ kRemote = <<>>
    /\ kCache = <<>>
    /\ kSession = None
    /\ kLog = <<>>
    /\ kResults = <<>>

\* a call made on the client, with the log position it started at
Call(op, repo, from, result) ==
    [op |-> op, repo |-> repo, from |-> from, result |-> result]

Finish(cl, call) ==
    /\ kCache' = cl.cache
    /\ kSession' = cl.session
    /\ kLog' = cl.log
    /\ kResults' = Append(kResults, call)
    /\ UNCHANGED <<kClient, kRemote>>
    /\ UNCHANGED notClient

ListTags(repo) ==
    /\ kClient # "none"
    /\ Len(kResults) < MaxCalls
    /\ LET r == list_call(kClient, Client(kCache, kSession, kLog), repo, kRemote[repo])
       IN Finish(r.client, Call("list_tags", repo, Len(kLog), r.tags))

GetTagMetadata(repo) ==
    /\ kClient \in {"mcr", "chainguard"}
    /\ Len(kResults) < MaxCalls
    /\ LET r == metadata_call(kClient, Client(kCache, kSession, kLog), repo,
                              kRemote[repo], kRemote[repo].entries[1])
       IN Finish(r.client, Call("get_tag_metadata", repo, Len(kLog), r.tag))

FindTagsForPeriods(repo) ==
    /\ kClient # "none"
    /\ Len(kResults) < MaxCalls
    /\ LET r == periods_call(kClient, Client(kCache, kSession, kLog), repo,
                             kRemote[repo], 1, <<>>)
       IN Finish(r.client, Call("find_tags_for_periods", repo, Len(kLog), r.found))

ClientNext ==
    \/ \E repo \in ClientRepos : ListTags(repo)
    \/ \E repo \in ClientRepos : GetTagMetadata(repo)
    \/ \E repo \in ClientRepos : FindTagsForPeriods(repo)

\* C14: two runs of find_tags_for_periods on the same client for the same
\* repository, against an unchanged registry and with the same "now", give
\* the same result for every period, whatever the client did in between.
C14_Idempotent ==
    \A i, j \in 1..Len(kResults) :
        /\ kResults[i].op = "find_tags_for_periods"
        /\ kResults[j].op = "find_tags_for_periods"
        /\ kResults[i].repo = kResults[j].repo
        => kResults[i].result = kResults[j].result

\* an MCR client ran find_tags_for_periods twice in a row for a repository
\* that needs a token, and resolved a tag
C14_Witness ==
    /\ kClient = "mcr"
    /\ Len(kResults) >= 2
    /\ kResults[1].op = "find_tags_for_periods"
    /\ kResults[2].op = "find_tags_for_periods"
    /\ kResults[1].repo = kResults[2].repo
    /\ kRemote[kResults[1].repo].auth = "bearer"
    /\ \E k \in 1..Len(Periods) : kResults[2].result[k] # None

\* the requests to the registry itself
RegistryRequests == {"list", "manifest", "config", "page"}

\* C15: no tags/list, manifest or config request a client sends for a
\* repository carries a bearer token issued for another repository, also
\* when the token request for the repository failed after a token for
\* another repository was obtained on the same client.
C15_TokenScopedToRepository ==
    \A i \in 1..Len(kLog) :
        kLog[i].what \in RegistryRequests /\ kLog[i].bearer # None =>
            kLog[i].bearer = Some(TokenFor(kLog[i].repo))

\* the same for the MCR client alone, whose requests take the token from
\* the cache entry of their repository
McrTokenScopedToRepository ==
    kClient = "mcr" => C15_TokenScopedToRepository

\* the token request at position i of the log was answered with a token
TokenObtained(i) ==
    /\ kLog[i].what = "token"
    /\ kRemote[kLog[i].repo].auth = "bearer"

\* C16: once a client has obtained a token for a repository, it makes no
\* further probe or token request for that repository, and every later
\* request for the repository carries that token.
C16_TokenCachedForLifetime ==
    \A i, j \in 1..Len(kLog) :
        i < j /\ TokenObtained(i) /\ kLog[j].op = "GET" /\ kLog[j].repo = kLog[i].repo
        => /\ kLog[j].what \notin {"probe", "token"}
           /\ kLog[j].bearer = Some(TokenFor(kLog[j].repo))

\* the same for the MCR client alone, with its cache entry still in place
McrTokenCachedForLifetime ==
    kClient = "mcr" =>
        /\ C16_TokenCachedForLifetime
        /\ \A i \in 1..Len(kLog) :
              TokenObtained(i) =>
                  /\ kLog[i].repo \in DOMAIN kCache
                  /\ kCache[kLog[i].repo] = TokenFor(kLog[i].repo)

\* C17: after the probe of the MCR client for a repository was answered 200
\* without a challenge, the client sends no further probe for that
\* repository, and its requests for the repository carry no bearer token.
C17_NoAuthNeededIsPermanent ==
    kClient = "mcr" =>
        \A i, j \in 1..Len(kLog) :
            /\ i < j
            /\ kLog[i].what = "probe"
            /\ kRemote[kLog[i].repo].auth = "open"
            /\ kLog[j].op = "GET"
            /\ kLog[j].repo = kLog[i].repo
            => kLog[j].what # "probe" /\ kLog[j].bearer = None

\* the log positions at which a call on the client started
CallStarts == { kResults[c].from + 1 : c \in 1..Len(kResults) }

\* C18: every outbound request of a client instance is preceded by a
\* rate-limit sleep since the previous request; stated for the requests of
\* one call (what passes between two calls is the caller's).
C18_RateLimited ==
    \A j \in 1..Len(kLog) :
        kLog[j].op = "GET" /\ j \notin CallStarts =>
            j > 1 /\ kLog[j - 1].op = "sleep"

\* the same for the pages of list_tags of the Docker Hub client alone
DockerPagesRateLimited ==
    /\ kClient = "docker"
    /\ \A c \in 1..Len(kResults) : kResults[c].op = "list_tags"
    => C18_RateLimited

\* C19: one call of list_tags returns no two entries with the same name,
\* whatever the registry serves across its pages.
C19_NoDuplicateNames ==
    cPc = "done" =>
        \A i, j \in 1..Len(cReturned) :
            cReturned[i].name = cReturned[j].name => i = j

\* the same when no tag object appears twice in the pages of the Docker Hub
\* listing, and for the OCI clients, whose tags/list answer names each tag
\* once
NoDuplicateNamesOfDistinctListing ==
    /\ cPc = "done"
    /\ cClient = "docker" =>
          \A p, q \in 1..Len(cRemote.pages) :
              \A i \in 1..Len(cRemote.pages[p]), j \in 1..Len(cRemote.pages[q]) :
                  cRemote.pages[p][i].name = cRemote.pages[q][j].name
                      => p = q /\ i = j
    => \A i, j \in 1..Len(cReturned) :
           cReturned[i].name = cReturned[j].name => i = j

\* the timestamp strings the registry of the call serves
RemoteStamps ==
    IF cClient = "docker"
    THEN UNION { { cRemote.pages[p][i].last_updated[1] : i \in
                     { k \in 1..Len(cRemote.pages[p]) :
                         cRemote.pages[p][k].last_updated # None } }
                 \cup { cRemote.pages[p][i].tag_last_pushed[1] : i \in
                     { k \in 1..Len(cRemote.pages[p]) :
                         cRemote.pages[p][k].tag_last_pushed # None } }
                 : p \in 1..Len(cRemote.pages) }
    ELSE { cRemote.entries[i].created[1] : i \in
             { k \in 1..Len(cRemote.entries) : cRemote.entries[k].created # None } }

\* the target dates of find_tags_for_periods, which are aware:
\* datetime.now(timezone.utc) - timedelta(days=days_ago)
TargetDateTimes ==
    { Aware(TargetDate(StartClock, Periods[k])) : k \in 1..Len(Periods) }

\* C20: every created of a tag that list_tags returns is, when present, an
\* aware datetime, so that "tag.created <= target_date" of
\* find_latest_at_date does not raise, also when the registry serves a
\* timestamp string without a UTC offset.
C20_CreatedIsAware ==
    cPc = "done" =>
        \A i \in 1..Len(cReturned) :
            cReturned[i].created # None =>
                /\ cReturned[i].created[1].aware
                /\ \A target_date \in TargetDateTimes :
                      ~ComparisonRaises(cReturned[i].created[1], target_date)

\* the same when every timestamp string the registry serves carries "Z" or
\* a UTC offset
CreatedIsAwareOfOffsetStamps ==
    cPc = "done" /\ (\A stamp \in RemoteStamps : stamp.offset) =>
        \A i \in 1..Len(cReturned) :
            cReturned[i].created # None =>
                /\ cReturned[i].created[1].aware
                /\ \A target_date \in TargetDateTimes :
                      ~ComparisonRaises(cReturned[i].created[1], target_date)

\* C21: one find_tags_for_periods call over the periods issues exactly one
\* list_tags call to the client, whose listing is reused for every period.
C21_ListedOncePerCall ==
    pPc = "done" => pListCalls = 1

\* what the call does: one list_tags call for each period
ListedOncePerPeriod ==
    pPc = "done" => pListCalls = Len(Periods)

\* the tasks whose worker thread is inside _get_auth_token, between the
\* answer of the token service and the write of the cache
Authenticating == { i \in 1..Len(tPc) : tPc[i] = "probed" }

\* C22: on the shared MCR client at most one authentication is in flight for
\* a repository at any time, also when several workers resolve mappings of
\* the same repository.
C22_OneAuthenticationInFlight ==
    \A i, j \in Authenticating :
        dMappings[i].upstream[1].image = dMappings[j].upstream[1].image => i = j

\* what holds: a task authenticates only while it finds no token in the cache
AuthenticatingOnCacheMiss ==
    \A i \in 1..Len(dMappings) :
        /\ dPhase = "parallel"
        /\ tPc[i] = "started"
        /\ UsesMcr(dMappings[i])
        /\ dMappings[i].upstream[1].image \in DOMAIN dTokenCache
        => ~ENABLED (TaskAuth(i) /\ tPc'[i] = "probed")

-----------------------------------------------------------------------------
(* The output of the worker threads (specification SpecLog) *)

\* the worker threads of the executor
LogWorkers == 1..MaxLogWorkers

\* self.log(message, force)
LogLine(force) == [by |-> "log", force |-> force]

\* print(...) of a crawler in "except requests.exceptions.RequestException"
CrawlerPrint == [by |-> "print", force |-> TRUE]

\* the messages of resolve_single_mapping for a mapped record, in the order
\* of the code: "Processing" (forced), "Upstream", the error messages of the
\* list_tags calls of the periods when the listing fails, "Resolved",
\* "Chainguard", "Completed" (forced)
Messages(fails) ==
    <<LogLine(TRUE), LogLine(FALSE)>>
    \o (IF fails THEN [k \in 1..Len(Periods) |-> CrawlerPrint] ELSE <<>>)
    \o <<LogLine(FALSE), LogLine(FALSE), LogLine(TRUE)>>

LogInit ==
    /\ lVerbose \in BOOLEAN
    /\ lFails \in [LogWorkers -> BOOLEAN]
    /\ lPc = [w \in LogWorkers |-> [line |-> 1, at |-> "call"]]
    /\ lLock = 0
    /\ lWriters = {}
    /\ lSink = <<>>

LogIdle ==
    /\ lVerbose = FALSE
    /\ lFails = <<>>
    /\ lPc = <<>>
    /\ lLock = 0
    /\ lWriters = {}
    /\ lSink = <<>>

\* the message the worker is at
Message(w) == Messages(lFails[w])[lPc[w].line]

AtMessage(w, at) ==
    /\ lPc[w].line <= Len(Messages(lFails[w]))
    /\ lPc[w].at = at

NextMessage(w) == [lPc EXCEPT ![w] = [line |-> lPc[w].line + 1, at |-> "call"]]

\* log: "if self.verbose or force" is false and the call returns
LogSkip(w) ==
    /\ AtMessage(w, "call")
    /\ Message(w).by = "log"
    /\ ~(lVerbose \/ Message(w).force)
    /\ lPc' = NextMessage(w)
    /\ UNCHANGED <<lVerbose, lFails, lLock, lWriters, lSink>>
    /\ UNCHANGED notLog

\* log: "with self.print_lock" is entered once the lock is free
LogAcquire(w) ==
    /\ AtMessage(w, "call")
    /\ Message(w).by = "log"
    /\ lVerbose \/ Message(w).force
    /\ lLock = 0
    /\ lLock' = w
    /\ lPc' = [lPc EXCEPT ![w].at = "print"]
    /\ UNCHANGED <<lVerbose, lFails, lWriters, lSink>>
    /\ UNCHANGED notLog

\* print begins to write: inside the lock for log, at once for a crawler
WriteBegin(w) ==
    /\ \/ AtMessage(w, "print")
       \/ AtMessage(w, "call") /\ Message(w).by = "print"
    /\ lWriters' = lWriters \cup {w}
    /\ lPc' = [lPc EXCEPT ![w].at = "writing"]
    /\ UNCHANGED <<lVerbose, lFails, lLock, lSink>>
    /\ UNCHANGED notLog

\* print has written the line; log leaves the "with" block and releases
\* the lock
WriteEnd(w) ==
    /\ AtMessage(w, "writing")
    /\ lWriters' = lWriters \ {w}
    /\ lSink' = Append(lSink, [worker |-> w, line |-> lPc[w].line,
                               locked |-> lLock = w])
    /\ lLock' = IF Message(w).by = "log" THEN 0 ELSE lLock
    /\ lPc' = NextMessage(w)
    /\ UNCHANGED <<lVerbose, lFails>>
    /\ UNCHANGED notLog

LogNext ==
    \/ \E w \in LogWorkers : LogSkip(w)
    \/ \E w \in LogWorkers : LogAcquire(w)
    \/ \E w \in LogWorkers : WriteBegin(w)
    \/ \E w \in LogWorkers : WriteEnd(w)

\* the lines of one worker appear in the order the worker emitted them
InWorkerOrder ==
    \A i, j \in 1..Len(lSink) :
        i < j /\ lSink[i].worker = lSink[j].worker => lSink[i].line < lSink[j].line

\* C23: while the workers run, no two threads write to the output at the
\* same time, every write is made by the holder of print_lock, and the
\* lines of one worker appear in the order it emitted them; the error
\* messages of the crawlers included.
C23_OutputSerialized ==
    /\ Cardinality(lWriters) <= 1
    /\ \A w \in lWriters : lLock = w
    /\ \A i \in 1..Len(lSink) : lSink[i].locked
    /\ InWorkerOrder

\* the same for the driver's own log calls alone, and the order of each
\* worker's lines for all messages
LogCallsSerialized ==
    /\ \A w \in lWriters : Message(w).by = "log" => lLock = w
    /\ \A v, w \in lWriters :
          Message(v).by = "log" /\ Message(w).by = "log" => v = w
    /\ InWorkerOrder

-----------------------------------------------------------------------------
(* main: the statistics of a run *)

\* r.get('upstream_versions') and any(r['upstream_versions'].values())
counts_as_resolved(r) ==
    /\ r.upstream_versions # None
    /\ r.upstream_versions[1] # EmptyDict
    /\ \E n \in DOMAIN r.upstream_versions[1] : r.upstream_versions[1][n] # None

resolved_count(results) ==
    Cardinality({ i \in 1..Len(results) : counts_as_resolved(results[i]) })

\* output_data['statistics'], which the summary prints
statistics(results) ==
    [total |-> Len(results),
     resolved |-> resolved_count(results),
     failed |-> Len(results) - resolved_count(results)]

\* the counts reported for the results agree with the batch
CountsAgree(results) ==
    LET s == statistics(results)
    IN /\ s.total = Len(dMappings)
       /\ s.resolved + s.failed = s.total
       /\ s.resolved >= 0 /\ s.failed >= 0
       /\ s.resolved = Cardinality({ i \in 1..Len(results) :
                          /\ results[i].upstream_versions # None
                          /\ \E n \in PeriodNames :
                                /\ n \in DOMAIN results[i].upstream_versions[1]
                                /\ results[i].upstream_versions[1][n] # None })

\* C24: every run of main ends by reporting the resolved and failed counts,
\* whatever failed during the resolution, with resolved + failed = total =
\* the number of mappings, a mapping being resolved exactly when its
\* upstream_versions holds a tag for at least one period.
C24_CountsReported ==
    /\ sOutcome # "raised"
    /\ sOutcome = "returned" => CountsAgree(sResults)
    /\ parPc = "returned" =>
          CountsAgree([i \in 1..Len(parResults) |-> parResults[i][1]])

\* the same for the runs that reach the statistics: every run with several
\* workers, and the runs with one worker that no exception left
ReportedCountsAgree ==
    /\ sOutcome = "returned" => CountsAgree(sResults)
    /\ parPc = "returned" =>
          CountsAgree([i \in 1..Len(parResults) |-> parResults[i][1]])

-----------------------------------------------------------------------------
(* filter_tags as three predicates *)

\* the three criteria of a call, each as a predicate on one tag
FilterPredicate(p, args, t) ==
    CASE p = "dev" -> args.include_dev \/ ~IsDevTag(t)
      [] p = "semver" -> ~args.only_semver \/ IsSemverTag(t)
      [] p = "pattern" ->
            \/ args.pattern = None
            \/ args.pattern[1] = <<>>
            \/ Search(args.pattern[1], t.name)

\* the orders in which the three criteria can be applied
PredicateOrders ==
    { <<"dev", "semver", "pattern">>, <<"dev", "pattern", "semver">>,
      <<"semver", "dev", "pattern">>, <<"semver", "pattern", "dev">>,
      <<"pattern", "dev", "semver">>, <<"pattern", "semver", "dev">> }

\* the criteria applied one after the other in the order o
FilteredInOrder(tags, args, o) ==
    LET a == SelectSeq(tags, LAMBDA t : FilterPredicate(o[1], args, t))
        b == SelectSeq(a, LAMBDA t : FilterPredicate(o[2], args, t))
    IN SelectSeq(b, LAMBDA t : FilterPredicate(o[3], args, t))

RECURSIVE IsSubsequence(_, _)
\* out is made of elements of in, in the order they have in in
IsSubsequence(out, in) ==
    IF out = <<>> THEN TRUE
    ELSE IF in = <<>> THEN FALSE
    ELSE IF out[1] = in[1] THEN IsSubsequence(Tail(out), Tail(in))
    ELSE IsSubsequence(out, Tail(in))

\* the listings of the calls of filter_tags, which reads only the names:
\* undated tags, each name at most once
FilterListings ==
    { l \in UNION { [1..k -> { ImageTag(n, None, None, None) : n \in TagNames }] :
                    k \in 0..MaxTags } :
        \A i, j \in 1..Len(l) : l[i].name = l[j].name => i = j }

FilterInit ==
    /\ uTags \in FilterListings
    /\ uArgs \in { c \in UtilCalls : c.op = "filter_tags" }
    /\ uPc = "call"
    /\ uOut = <<>>

FilterNext == FilterTagsCall

\* C25: the list filter_tags returns is the list obtained by applying the
\* three criteria in any order, and it is a subsequence of the input, in
\* the input's order.
C25_FilterIsOrderFreeConjunction ==
    uPc = "done" /\ uArgs.op = "filter_tags" =>
        /\ \A o \in PredicateOrders : uOut = FilteredInOrder(uTags, uArgs, o)
        /\ IsSubsequence(uOut, uTags)

\* a call with at least two criteria in force that dropped a tag and kept
\* two
C25_Witness ==
    /\ uPc = "done"
    /\ uArgs.op = "filter_tags"
    /\ ~uArgs.include_dev
    /\ uArgs.only_semver
    /\ Len(uOut) = 2
    /\ Len(uTags) = 3

\* the entries of the listing whose manifest body is not a JSON object
NotObject == { i \in 1..Len(cRemote.entries) :
                 cRemote.entries[i].plan = "manifest_not_object" }

\* C26: a metadata answer of unexpected shape for one tag is not raised by
\* list_tags of the OCI clients: the call returns one entry per listed tag,
\* and the entry of that tag is the ImageTag carrying only the name.
C26_ParseErrorDegrades ==
    cClient \in {"mcr", "chainguard"} =>
        /\ cPc # "raised"
        /\ cPc = "done" /\ OciListed =>
              /\ Len(cReturned) = Len(cRemote.entries)
              /\ \A i \in NotObject :
                    cReturned[i] = MinimalTag(cRemote.entries[i].name)

\* list_tags raises only on such an answer, at the tag that has it
RaisedAtNotObject ==
    cPc = "raised" => cPos \in NotObject

\* the token request at position i of the log failed
TokenRefused(i) ==
    /\ kLog[i].what = "token"
    /\ kRemote[kLog[i].repo].auth = "bearer_down"

\* C27: after a token request for a repository failed, the requests the
\* client sends for that repository carry no Authorization header, and the
\* token cache holds nothing for the repository.
C27_FailedTokenLeavesUnauthenticated ==
    \A i \in 1..Len(kLog) :
        TokenRefused(i) =>
            /\ kLog[i].repo \notin DOMAIN kCache
            /\ \A j \in (i + 1)..Len(kLog) :
                  kLog[j].op = "GET" /\ kLog[j].repo = kLog[i].repo
                      => kLog[j].bearer = None

\* the same for the MCR client alone, and for a Chainguard client that no
\* token was installed on
FailedTokenLeavesUnauthenticatedWithoutSession ==
    kClient = "mcr" \/ (\A i \in 1..Len(kLog) : ~TokenObtained(i))
        => C27_FailedTokenLeavesUnauthenticated

RECURSIVE Flatten(_)
\* the concatenation of the pages, in page order
Flatten(pages) ==
    IF pages = <<>> THEN <<>> ELSE pages[1] \o Flatten(Tail(pages))

\* what the pages of the registry hold, parsed, when every page up to the
\* one without a "next" link is read
AllPagesParsed ==
    LET all == Flatten(cRemote.pages)
    IN [i \in 1..Len(all) |-> docker_parse_tag(all[i])]

\* the call listed a Docker Hub repository and no request of it failed
DockerListedWithoutFailure ==
    cClient = "docker" /\ cPc = "done" /\ ~cListFailed

\* C28: when no request fails, list_tags of Docker Hub requests the pages
\* 1, 2, ... in increasing order up to the first page without a "next" link
\* and returns the concatenation of their tags in page order.
C28_PaginatesFully ==
    DockerListedWithoutFailure =>
        /\ cReturned = AllPagesParsed
        /\ cRequested = [i \in 1..Len(cRemote.pages) |-> i]

\* the same when no page before the last is empty; and in every case the
\* pages are requested in increasing order from page 1
PaginatesUpToEmptyPage ==
    DockerListedWithoutFailure =>
        /\ cRequested = [i \in 1..Len(cRequested) |-> i]
        /\ (\A p \in 1..(Len(cRemote.pages) - 1) : cRemote.pages[p] # <<>>)
              => /\ cReturned = AllPagesParsed
                 /\ cRequested = [i \in 1..Len(cRemote.pages) |-> i]

\* the listings of the termination check: pages of well-formed tag objects
PagingRemotes ==
    LET data == { t \in DockerTagData : docker_parse_tag(t).created # None
                                          => docker_parse_tag(t).created[1].aware }
        pages == UNION { [1..k -> UNION { [1..m -> data] : m \in 0..MaxPageTags }] :
                         k \in 0..MaxPages }
    IN { [pages |-> ps, fail_at |-> f] : ps \in pages, f \in 0..MaxPages }

\* a new Docker Hub client and one call of list_tags
PagingInit ==
    /\ cClient = "docker"
    /\ cRemote \in PagingRemotes
    /\ cPc = "page"
    /\ cPos = 1
    /\ cNames = <<>>
    /\ cTags = <<>>
    /\ cTokenCache = <<>>
    /\ cSessionAuth = None
    /\ cListFailed = FALSE
    /\ cReturned = <<>>
    /\ cRequested = <<>>

PagingNext == DockerPageRequest

\* the request of page p ends the loop: it fails, the page is empty, or it
\* has no "next" link
EndsLoop(p) ==
    \/ cRemote.fail_at = p
    \/ p > Len(cRemote.pages)
    \/ cRemote.pages[p] = <<>>
    \/ p = Len(cRemote.pages)

\* C29: list_tags of Docker Hub on a repository of finitely many pages
\* terminates; it requests no page number twice, and it returns at the first
\* request that fails, finds an empty page or finds no "next" link.
C29_DockerListTagsTerminates ==
    /\ [](cClient = "docker" =>
            /\ \A i, j \in 1..Len(cRequested) :
                  cRequested[i] = cRequested[j] => i = j
            /\ \A i \in 1..(Len(cRequested) - 1) : ~EndsLoop(cRequested[i])
            /\ cPc = "done" =>
                  /\ cRequested # <<>>
                  /\ EndsLoop(cRequested[Len(cRequested)]))
    /\ (cClient = "docker") ~> (cPc = "done")

\* a call that returned at its third request, after two pages with tags
C29_Witness ==
    /\ cClient = "docker"
    /\ cPc = "done"
    /\ Len(cRequested) >= 2
    /\ Len(cReturned) >= 2

\* C30: a mapping whose status is not 'mapped' is skipped: no registry
\* request is sent for it, resolving it leaves the token cache of the
\* crawler as it is whatever the registry would do, and its result, with
\* one worker and with several, is the original mapping with
\* upstream_versions and chainguard_versions None.
C30_UnmappedSkipped ==
    \A i \in 1..Len(dMappings) :
        dMappings[i].status # "mapped" =>
            /\ i \notin dRequested
            /\ \A env \in Behaviours :
                  resolve_single_mapping(dMappings[i], env, dTokenCache)
                      = Returned(NoVersions(dMappings[i]), dTokenCache)
            /\ ~(sOutcome = "raised" /\ sIdx = i)
            /\ Len(sResults) >= i => sResults[i] = NoVersions(dMappings[i])
            /\ dPhase \in {"parallel", "end"} /\ tFuture[i] # None =>
                  tFuture[i] = Some(Returned(NoVersions(dMappings[i]), <<>>))
            /\ dPhase \in {"parallel", "end"} /\ parResults[i] # None =>
                  parResults[i] = Some(NoVersions(dMappings[i]))

\* both runs returned on a batch that holds a skipped mapping and a mapping
\* that was resolved against its registry
C30_Witness ==
    /\ sOutcome = "returned"
    /\ parPc = "returned"
    /\ dRequested # {}
    /\ \E i \in 1..Len(dMappings) :
          /\ dMappings[i].status # "mapped"
          /\ sResults[i] = NoVersions(dMappings[i])
          /\ parResults[i] = Some(NoVersions(dMappings[i]))

-----------------------------------------------------------------------------
(* Specifications *)

InitFind == FindInit /\ PeriodIdle /\ CrawlIdle /\ DriverIdle /\ UtilIdle /\ ClientIdle
    /\ LogIdle

\* one call of find_latest_at_date on a drawn listing, target and query
SpecFind == InitFind /\ [][FindNext]_vars

InitPeriods == PeriodInit /\ FindIdle /\ CrawlIdle /\ DriverIdle /\ UtilIdle /\ ClientIdle
    /\ LogIdle

\* one call of find_tags_for_periods against an unchanged remote listing
SpecPeriods == InitPeriods /\ [][PeriodNext]_vars

InitCrawl == CrawlInit /\ FindIdle /\ PeriodIdle /\ DriverIdle /\ UtilIdle /\ ClientIdle
    /\ LogIdle

\* one call of list_tags of one client against a drawn remote registry
SpecCrawl == InitCrawl /\ [][CrawlNext]_vars

InitDriver == DriverInit /\ FindIdle /\ PeriodIdle /\ CrawlIdle /\ UtilIdle /\ ClientIdle
    /\ LogIdle

\* main run with one worker and then with several on the same batch
SpecDriver == InitDriver /\ [][DriverNext]_vars

InitScenarioB == ScenarioBInit /\ FindIdle /\ PeriodIdle /\ CrawlIdle /\ UtilIdle /\ ClientIdle
    /\ LogIdle

\* main run on the batch of scenario B
SpecScenarioB == InitScenarioB /\ [][DriverNext]_vars

InitUtil == UtilInit /\ FindIdle /\ PeriodIdle /\ CrawlIdle /\ DriverIdle /\ ClientIdle
    /\ LogIdle

\* one call of filter_tags or sort_tags_by_date on a drawn listing
SpecUtil == InitUtil /\ [][UtilNext]_vars

InitClient ==
    ClientInit /\ FindIdle /\ PeriodIdle /\ CrawlIdle /\ DriverIdle /\ UtilIdle
    /\ LogIdle

\* the calls made on one client instance against an unchanged registry
SpecClient == InitClient /\ [][ClientNext]_vars

InitLog ==
    LogInit /\ FindIdle /\ PeriodIdle /\ CrawlIdle /\ DriverIdle /\ UtilIdle
    /\ ClientIdle

\* the messages of the worker threads of resolve_all_mappings_parallel
SpecLog == InitLog /\ [][LogNext]_vars

InitPaging ==
    PagingInit /\ FindIdle /\ PeriodIdle /\ DriverIdle /\ UtilIdle /\ ClientIdle
    /\ LogIdle

\* list_tags of Docker Hub run to its end: the thread that runs the call
\* takes its next step
SpecPaging == InitPaging /\ [][PagingNext]_vars /\ WF_vars(PagingNext)

InitFilter ==
    FilterInit /\ FindIdle /\ PeriodIdle /\ CrawlIdle /\ DriverIdle /\ ClientIdle
    /\ LogIdle

\* one call of filter_tags on a drawn listing of names
SpecFilter == InitFilter /\ [][FilterNext]_vars

=============================================================================
